---- MODULE Spec2Model ----
(***************************************************************************)
(* Model of the anemia-survey dashboard back end (src/app.py): the         *)
(* load_data pipeline, the refresh cycle with its background sync push,    *)
(* the change-detection sync cache and the notification ledger.            *)
(*                                                                         *)
(* Cells of a data frame are modelled by their Python str() rendering: a   *)
(* float 9.5 is "9.5", NaN is "nan", None is "None".  Numbers that are     *)
(* compared are integers scaled by 100 (9.5 g/dL is 950).                  *)
(***************************************************************************)
EXTENDS Integers, Sequences, FiniteSets, TLC

(***************************************************************************)
(* Bounds of the model.                                                    *)
(***************************************************************************)
\* number of refresh cycles (timer ticks) explored
MaxRefresh == 3
\* number of ledger operations (button clicks) explored
MaxClicks == 3

(***************************************************************************)
(* Python string helpers.                                                  *)
(***************************************************************************)
UpperAlpha == "ABCDEFGHIJKLMNOPQRSTUVWXYZ"
LowerAlpha == "abcdefghijklmnopqrstuvwxyz"
DigitChars == "0123456789"

CharAt(s, i) == SubSeq(s, i, i)

\* int(c) of the digits, as a table
DigitValue ==
    [c \in {CharAt(DigitChars, i) : i \in 1..10} |->
       (CHOOSE i \in 1..10 : CharAt(DigitChars, i) = c) - 1] @@ (<<>>)

IsDigit(c) == c \in DOMAIN DigitValue

\* str.lower() and str.upper() of the letters, as tables
ToLower ==
    [c \in {CharAt(UpperAlpha, i) : i \in 1..26} |->
       CharAt(LowerAlpha, CHOOSE i \in 1..26 : CharAt(UpperAlpha, i) = c)] @@ (<<>>)

ToUpper ==
    [c \in {CharAt(LowerAlpha, i) : i \in 1..26} |->
       CharAt(UpperAlpha, CHOOSE i \in 1..26 : CharAt(LowerAlpha, i) = c)] @@ (<<>>)

\* str.lower() of one character
LowerCh(c) == IF c \in DOMAIN ToLower THEN ToLower[c] ELSE c

RECURSIVE Lower(_)
Lower(s) == IF s = "" THEN "" ELSE LowerCh(Head(s)) \o Lower(Tail(s))

RECURSIVE LStrip(_)
LStrip(s) == IF s # "" /\ Head(s) = " " THEN LStrip(Tail(s)) ELSE s

RECURSIVE RStrip(_)
RStrip(s) ==
    IF s # "" /\ CharAt(s, Len(s)) = " " THEN RStrip(SubSeq(s, 1, Len(s) - 1)) ELSE s

\* str.strip()
Strip(s) == RStrip(LStrip(s))

\* s * n for a one-character string
RECURSIVE Repeat(_, _)
Repeat(c, n) == IF n <= 0 THEN "" ELSE c \o Repeat(c, n - 1)

\* re.sub(r'\D', '', s)
RECURSIVE DigitsOnly(_)
DigitsOnly(s) ==
    IF s = "" THEN ""
    ELSE (IF IsDigit(Head(s)) THEN Head(s) ELSE "") \o DigitsOnly(Tail(s))

\* str(n) for a natural number
RECURSIVE NatStr(_)
NatStr(n) ==
    IF n < 10 THEN CharAt(DigitChars, n + 1)
    ELSE NatStr(n \div 10) \o CharAt(DigitChars, (n % 10) + 1)

\* sep.join(seq) for a sequence of strings
RECURSIVE Join(_, _)
Join(seq, sep) ==
    IF seq = <<>> THEN ""
    ELSE IF Len(seq) = 1 THEN seq[1]
    ELSE seq[1] \o sep \o Join(Tail(seq), sep)

\* str.upper() of one character
UpperCh(c) == IF c \in DOMAIN ToUpper THEN ToUpper[c] ELSE c

IsAlpha(c) == c \in DOMAIN ToLower \/ c \in DOMAIN ToUpper

\* str.title(): a letter that follows a non-letter is upper-cased, the others lowered
RECURSIVE TitleFrom(_, _)
TitleFrom(s, prevAlpha) ==
    IF s = "" THEN ""
    ELSE (IF prevAlpha THEN LowerCh(Head(s)) ELSE UpperCh(Head(s)))
         \o TitleFrom(Tail(s), IsAlpha(Head(s)))

Title(s) == TitleFrom(s, FALSE)

\* sub in s
Contains(s, sub) ==
    \E i \in 1..(Len(s) - Len(sub) + 1) : SubSeq(s, i, i + Len(sub) - 1) = sub

\* index of the first "." of s, or 0
DotPos(s) ==
    IF \E i \in 1..Len(s) : CharAt(s, i) = "."
    THEN CHOOSE i \in 1..Len(s) :
            CharAt(s, i) = "." /\ \A j \in 1..(i - 1) : CharAt(s, j) # "."
    ELSE 0

AllDigits(s) == \A i \in 1..Len(s) : IsDigit(CharAt(s, i))

\* the parts of a stripped decimal text: sign, digits before and after the point
IsNegative(s) == s # "" /\ Head(s) = "-"

Unsigned(s) == IF IsNegative(s) THEN Tail(s) ELSE s

IntPart(u) == IF DotPos(u) = 0 THEN u ELSE SubSeq(u, 1, DotPos(u) - 1)

FracPart(u) == IF DotPos(u) = 0 THEN "" ELSE SubSeq(u, DotPos(u) + 1, Len(u))

IsDecimal(u) ==
    AllDigits(IntPart(u)) /\ AllDigits(FracPart(u)) /\ Len(IntPart(u)) + Len(FracPart(u)) > 0

\* the plain decimal texts float() accepts: [-]digits[.digits] or [-].digits
IsFloatText(t) == IsDecimal(Unsigned(Strip(t)))

RECURSIVE DigitsVal(_)
DigitsVal(s) ==
    IF s = "" THEN 0
    ELSE 10 * DigitsVal(SubSeq(s, 1, Len(s) - 1)) + DigitValue[CharAt(s, Len(s))]

\* float(t) in hundredths, for a text IsFloatText accepts (two decimals kept)
Magnitude(u) == 100 * DigitsVal(IntPart(u)) + DigitsVal(SubSeq(FracPart(u) \o "00", 1, 2))

ParseFloat(t) ==
    IF IsNegative(Strip(t)) THEN 0 - Magnitude(Unsigned(Strip(t)))
    ELSE Magnitude(Unsigned(Strip(t)))

\* str(x) of the float x = h / 100
MagStr(mag) ==
    NatStr(mag \div 100) \o "." \o NatStr((mag % 100) \div 10)
    \o (IF mag % 10 = 0 THEN "" ELSE NatStr(mag % 10))

FloatStr(h) == IF h < 0 THEN "-" \o MagStr(0 - h) ELSE MagStr(h)

\* pd.isna on a cell (NaN renders "nan", None renders "None", NaT renders "NaT")
IsNA(v) == v \in {"nan", "None", "NaT"}

(***************************************************************************)
(* PII anonymization (src/app.py 53-69).                                   *)
(***************************************************************************)
MaskFill == 4

mask_pii_readable(val) ==
    IF IsNA(val) \/ Strip(val) = "" THEN ""
    ELSE IF Len(Strip(val)) <= 2 THEN Strip(val)
    ELSE CharAt(Strip(val), 1) \o Repeat("*", MaskFill)
         \o CharAt(Strip(val), Len(Strip(val)))

mask_contact(val) ==
    IF IsNA(val) \/ Strip(val) = "" THEN ""
    ELSE IF Len(Strip(val)) >= 4
    THEN SubSeq(Strip(val), 1, 2) \o Repeat("X", Len(Strip(val)) - 4)
         \o SubSeq(Strip(val), Len(Strip(val)) - 1, Len(Strip(val)))
    ELSE "****"

(***************************************************************************)
(* Anemia classifier (src/app.py 208-368).  hgb and age are cells; the     *)
(* thresholds are g/dL scaled by 100.                                      *)
(***************************************************************************)
\* a mutant of Band whose lower bounds are exclusive
BandExclusive(h, n, m, s) ==
    IF h > n THEN "normal"
    ELSE IF h > m THEN "mild"
    ELSE IF h > s THEN "moderate"
    ELSE "severe"

\* one threshold row: normal at or above n, mild at or above m, moderate at or above s
Band(h, n, m, s) ==
    IF h >= n THEN "normal"
    ELSE IF h >= m THEN "mild"
    ELSE IF h >= s THEN "moderate"
    ELSE "severe"

\* a mutant of AdultNormal that looks for "male" first
AdultNormalMaleFirst(gender_str) ==
    IF Contains(gender_str, "male") \/ gender_str = "m" THEN 1300
    ELSE IF Contains(gender_str, "female") \/ gender_str = "f" THEN 1200
    ELSE 1200

\* 338-366: the normal threshold from 12 years on
AdultNormal(gender_str) ==
    IF Contains(gender_str, "female") \/ gender_str = "f" THEN 1200
    ELSE IF Contains(gender_str, "male") \/ gender_str = "m" THEN 1300
    ELSE 1200

\* the thresholds chosen from the group, then from the age and the gender
AnemiaBand(h, hasAge, a, gender_str, beneficiary_str) ==
    IF Contains(beneficiary_str, "pregnant") THEN Band(h, 1100, 1000, 700)
    ELSE IF Contains(beneficiary_str, "5-59 months")
            \/ Contains(beneficiary_str, "children 5-59 months")
         THEN Band(h, 1100, 1000, 700)
    ELSE IF Contains(beneficiary_str, "5-9 years") THEN Band(h, 1150, 1100, 800)
    ELSE IF Contains(beneficiary_str, "adolescent girls")
            \/ (Contains(beneficiary_str, "adolescent") /\ Contains(gender_str, "female"))
         THEN Band(h, 1200, 1100, 800)
    ELSE IF Contains(beneficiary_str, "adolescent boys")
            \/ (Contains(beneficiary_str, "adolescent") /\ Contains(gender_str, "male"))
         THEN Band(h, 1200, 1100, 800)
    ELSE IF Contains(beneficiary_str, "women of reproductive age")
            \/ Contains(beneficiary_str, "reproductive age")
         THEN Band(h, 1200, 1100, 800)
    ELSE IF hasAge THEN
         IF a < 500 THEN Band(h, 1100, 1000, 700)
         ELSE IF a < 1200 THEN Band(h, 1150, 1100, 800)
         ELSE Band(h, AdultNormal(gender_str), 1100, 800)
    ELSE "incomplete"

\* the age cell is usable as a number
HasAgeValue(age) == ~IsNA(age) /\ Strip(age) # "" /\ IsFloatText(age)

\* str(x).lower().strip() of a cell, "" for a missing one
LowerText(v) == IF IsNA(v) THEN "" ELSE Strip(Lower(v))

\* a mutant of classify_anemia_who that reads a haemoglobin text that is no
\* number as zero
classify_anemia_text_as_zero(hgb, age, gender, beneficiary) ==
    IF IsNA(hgb) THEN "incomplete"
    ELSE AnemiaBand(IF IsFloatText(hgb) THEN ParseFloat(hgb) ELSE 0, HasAgeValue(age),
                    IF HasAgeValue(age) THEN ParseFloat(age) ELSE 0,
                    LowerText(gender), LowerText(beneficiary))

classify_anemia_who(hgb, age, gender, beneficiary) ==
    IF IsNA(hgb) THEN "incomplete"
    ELSE IF ~IsFloatText(hgb) THEN "incomplete"
    ELSE AnemiaBand(ParseFloat(hgb), HasAgeValue(age),
                    IF HasAgeValue(age) THEN ParseFloat(age) ELSE 0,
                    LowerText(gender), LowerText(beneficiary))

(***************************************************************************)
(* Lookup tables (src/app.py 23-36).                                       *)
(***************************************************************************)
\* BENEFICIARY_MAP, keyed by the code scaled by 100
BENEFICIARY_MAP ==
    (200 :> "Pregnant Women") @@ (300 :> "Children 5-59 Months")
    @@ (400 :> "Children Aged 5-9 Years") @@ (500 :> "Adolescent Girls 10-19 Years")
    @@ (600 :> "Adolescent Boys 10-19 Years") @@ (700 :> "Women Of Reproductive Age")

(***************************************************************************)
(* Rows.  A row is a function from column names to cells; a data frame is  *)
(* a sequence of rows over the same columns.                               *)
(***************************************************************************)
\* row.get(c, d)
Get(row, c, d) == IF c \in DOMAIN row THEN row[c] ELSE d

\* row with column c set to v (added when absent)
With(row, c, v) == (c :> v) @@ row

\* row restricted to the columns of cols
Keep(row, cols) == [k \in DOMAIN row \cap cols |-> row[k]]

\* row with column c set to v when the row has that column
Apply(row, c, v) == IF c \in DOMAIN row THEN With(row, c, v) ELSE row

\* pd.to_numeric(errors="coerce") of a cell, rendered as the float column renders it
to_numeric(v) == IF ~IsNA(v) /\ IsFloatText(v) THEN FloatStr(ParseFloat(v)) ELSE "nan"

(***************************************************************************)
(* load_data (src/app.py 447-733), stage by stage on one row.              *)
(***************************************************************************)
required_cols ==
    {"Sl.No", "ID", "enrollment_date", "BlockCode", "Area Code", "PSU Name",
     "Name", "Household Name", "Gender", "Benificiery", "Trimester", "DOB", "Age",
     "sample_status", "Sample Collected Date", "Collected By",
     "HGB", "anemia_category", "field_investigator", "data_operator",
     "Asha_Worker", "Aasha_Contact", "Diet 1", "Diet 2", "benficiery qn",
     "Length", "Height", "Weight", "Email", "Status", "_real_contact"}

\* the columns masked with mask_pii_readable (490-505)
readable_masked_cols ==
    <<"Name", "Household Name", "Email", "Asha_Worker", "field_investigator",
      "data_operator", "Collected By">>

\* 479-480: the generated serial number
StageSlNo(row, i) == With(row, "Sl.No", NatStr(i))

\* 485-487: the shadow copy of the contact, then the mask
StageContact(row) ==
    IF "Aasha_Contact" \in DOMAIN row
    THEN With(With(row, "_real_contact", row["Aasha_Contact"]),
              "Aasha_Contact", mask_contact(row["Aasha_Contact"]))
    ELSE row

\* 490-505
RECURSIVE MaskCols(_, _)
MaskCols(row, cols) ==
    IF cols = <<>> THEN row
    ELSE MaskCols(Apply(row, Head(cols), mask_pii_readable(row[Head(cols)])), Tail(cols))

\* 508-516
StageRequired(row) == Keep(row, required_cols)

\* 523-529
StageNumeric(row) ==
    Apply(Apply(Apply(Apply(row, "HGB", to_numeric(row["HGB"])),
                      "Length", to_numeric(row["Length"])),
                "Height", to_numeric(row["Height"])),
          "Weight", to_numeric(row["Weight"]))

\* fix_phone (695-698)
CountryCodeLen == 10

fix_phone(p) ==
    IF p = "" \/ p = "nan" THEN ""
    ELSE IF Len(p) = CountryCodeLen THEN "91" \o p
    ELSE p

\* 691-699
StagePhone(row) ==
    IF "Aasha_Contact" \in DOMAIN row
    THEN With(row, "Aasha_Contact", fix_phone(DigitsOnly(row["Aasha_Contact"])))
    ELSE row

\* 666-669: numeric coercion, the lookup, the fill with the coerced value, title case
\* 667-668: .map(BENEFICIARY_MAP).fillna(the coerced value)
LookupBeneficiary(num) ==
    IF num # "nan" /\ ParseFloat(num) \in DOMAIN BENEFICIARY_MAP
    THEN BENEFICIARY_MAP[ParseFloat(num)]
    ELSE num

MapBeneficiary(v) == Title(LookupBeneficiary(to_numeric(v)))

StageBeneficiary(row) == Apply(row, "Benificiery", MapBeneficiary(row["Benificiery"]))

\* 685-689
StageTitles(row) ==
    Apply(Apply(row, "Name", Title(row["Name"])), "Asha_Worker", Title(row["Asha_Worker"]))

\* 702-713
StageAnemia(row) ==
    With(row, "anemia_category",
         IF "HGB" \in DOMAIN row
         THEN classify_anemia_who(Get(row, "HGB", "None"), Get(row, "Age", "None"),
                                  Get(row, "Gender", "None"), Get(row, "Benificiery", "None"))
         ELSE "None")

\* 715-728: the retention filter
\* (the column was rendered with astype(str) at 669, so notna() holds of every cell)
Retained(row) ==
    \/ ~IsNA(row["Age"])
    \/ /\ row["Benificiery"] # ""
       /\ Lower(row["Benificiery"]) \notin {"nan", "none"}

(***************************************************************************)
(* BMI and the nutritional classifier (src/app.py 557-618).                *)
(***************************************************************************)
\* a positive number cell
Positive(v) == ~IsNA(v) /\ IsFloatText(v) /\ ParseFloat(v) > 0

\* 560-562: Height, filled from Length where Height is missing
HeightOrLength(row) ==
    IF "Height" \in DOMAIN row /\ "Length" \in DOMAIN row
    THEN (IF IsNA(row["Height"]) THEN row["Length"] ELSE row["Height"])
    ELSE IF "Height" \in DOMAIN row THEN row["Height"]
    ELSE IF "Length" \in DOMAIN row THEN row["Length"]
    ELSE "None"

\* weight_kg / (height_cm / 100) ^ 2 rounded to one decimal, times 10; w and h in tenths
RoundDiv(num, den) == IF 2 * (num % den) >= den THEN (num \div den) + 1 ELSE num \div den

BmiTenths(w, h) == RoundDiv(w * 1000000, h * h)

\* 557-569
BmiCell(w, h) ==
    IF Positive(w) /\ Positive(h)
    THEN FloatStr(10 * BmiTenths(ParseFloat(w) \div 10, ParseFloat(h) \div 10))
    ELSE "None"

StageBMI(row) ==
    IF "Weight" \in DOMAIN row
    THEN With(row, "BMI", BmiCell(row["Weight"], HeightOrLength(row)))
    ELSE With(row, "BMI", "None")

\* 590-595
gender_who(gender_raw) ==
    IF gender_raw \in {"male", "m", "boy", "boys"} THEN "boys"
    ELSE IF gender_raw \in {"female", "f", "girl", "girls"} THEN "girls"
    ELSE "None"

\* 614-618
AdultRule(val) ==
    IF val < 1850 THEN "Underweight"
    ELSE IF val < 2500 THEN "Normal"
    ELSE IF val < 3000 THEN "Overweight"
    ELSE "Obese"

\* a mutant of NutritionOf in which a growth-chart call that raises leaves the
\* row without a category
NutritionOfUncaught(bmi, age_y, beneficiary, gender_raw, z) ==
    IF Contains(beneficiary, "pregnant") \/ Contains(beneficiary, "(pw)")
    THEN (IF ~IsNA(bmi) /\ IsFloatText(bmi) /\ ParseFloat(bmi) >= 3000
          THEN "Obese" ELSE "Pregnancy")
    ELSE IF IsNA(bmi) THEN "Data Missing"
    ELSE IF ~IsFloatText(bmi) THEN "Data Missing"
    ELSE IF /\ ~IsNA(age_y) /\ gender_who(gender_raw) # "None"
            /\ IsFloatText(age_y) /\ ParseFloat(age_y) < 1900
            /\ z # "none"
    THEN (IF z = "raise" THEN "Data Missing" ELSE z)
    ELSE AdultRule(ParseFloat(bmi))

\* 571-618.  z is what the growth-chart call (who_standards) yields for the row:
\* "raise", "none", or the category classify_who_z_score returns.
NutritionOf(bmi, age_y, beneficiary, gender_raw, z) ==
    IF Contains(beneficiary, "pregnant") \/ Contains(beneficiary, "(pw)")
    THEN (IF ~IsNA(bmi) /\ IsFloatText(bmi) /\ ParseFloat(bmi) >= 3000
          THEN "Obese" ELSE "Pregnancy")
    ELSE IF IsNA(bmi) THEN "Data Missing"
    ELSE IF ~IsFloatText(bmi) THEN "Data Missing"
    ELSE IF /\ ~IsNA(age_y) /\ gender_who(gender_raw) # "None"
            /\ IsFloatText(age_y) /\ ParseFloat(age_y) < 1900
            /\ z \notin {"raise", "none"}
    THEN z
    ELSE AdultRule(ParseFloat(bmi))

classify_nutritional_status(row, z) ==
    NutritionOf(Get(row, "BMI", "None"), Get(row, "Age", "None"),
                Lower(Get(row, "Benificiery", "")),
                Strip(Lower(Get(row, "Gender", ""))), z)

\* 649
StageNutrition(row, z) == With(row, "bmi_category", classify_nutritional_status(row, z))

\* 651-659 for a source without the "PSU Name" column
\* 651-652: str.zfill(3)
AreaCodeWidth == 3

zfill(v, width) == Repeat("0", width - Len(v)) \o v

StageAreaCode(row) == Apply(row, "Area Code", zfill(row["Area Code"], AreaCodeWidth))

\* 654-659
StageLocation(row) ==
    IF "PSU Name" \in DOMAIN row /\ "Area Code" \in DOMAIN row
    THEN With(row, "Location", row["PSU Name"] \o " (" \o row["Area Code"] \o ")")
    ELSE IF "PSU Name" \in DOMAIN row THEN With(row, "Location", row["PSU Name"])
    ELSE With(row, "Location", "Missing")

(***************************************************************************)
(* parse_age (src/app.py 154-206) on the text of a cell.  An age is a      *)
(* number of years scaled by 100.                                          *)
(***************************************************************************)
\* str.replace(old, new)
RECURSIVE ReplaceAll(_, _, _)
ReplaceAll(s, old, new) ==
    IF Len(s) < Len(old) THEN s
    ELSE IF SubSeq(s, 1, Len(old)) = old
    THEN new \o ReplaceAll(SubSeq(s, Len(old) + 1, Len(s)), old, new)
    ELSE Head(s) \o ReplaceAll(Tail(s), old, new)

\* 171: the text with the year suffixes taken out
clean_num(age_str) ==
    Strip(ReplaceAll(ReplaceAll(ReplaceAll(age_str, "yr", ""), "yrs", ""), "yr.", ""))

\* 179: re.search(r'\d{1,4}[-/]\d{1,2}[-/]\d{1,4}', s)
LooksLikeDate(s) ==
    \E i, j \in 2..(Len(s) - 1) :
       /\ j - i \in {2, 3}
       /\ CharAt(s, i) \in {"-", "/"} /\ CharAt(s, j) \in {"-", "/"}
       /\ AllDigits(SubSeq(s, i + 1, j - 1))
       /\ IsDigit(CharAt(s, i - 1)) /\ IsDigit(CharAt(s, j + 1))

\* the last index of the run of digits that starts at i
DigitsEnd(s, i) ==
    CHOOSE j \in i..Len(s) :
       /\ AllDigits(SubSeq(s, i, j))
       /\ (j = Len(s) \/ ~IsDigit(CharAt(s, j + 1)))

\* the last index of the match of \d+(\.\d+)? that starts at the digit at i
NumberEnd(s, i) ==
    IF /\ DigitsEnd(s, i) + 2 <= Len(s)
       /\ CharAt(s, DigitsEnd(s, i) + 1) = "."
       /\ IsDigit(CharAt(s, DigitsEnd(s, i) + 2))
    THEN DigitsEnd(s, DigitsEnd(s, i) + 2)
    ELSE DigitsEnd(s, i)

\* (\d+(\.\d+)?)\s*unit matches at i
UnitAt(s, i, unit) ==
    /\ IsDigit(CharAt(s, i))
    /\ \E k \in (NumberEnd(s, i) + 1)..Len(s) :
          /\ CharAt(s, k) = unit
          /\ \A n \in (NumberEnd(s, i) + 1)..(k - 1) : CharAt(s, n) = " "

\* float(group(1)) of the match that starts at i
NumberAt(s, i) == ParseFloat(SubSeq(s, i, NumberEnd(s, i)))

\* 186-187: group(1) of the first match of (\d+(\.\d+)?)\s*unit, -1 without a match
UnitValue(s, unit) ==
    IF \E i \in 1..Len(s) : UnitAt(s, i, unit)
    THEN NumberAt(s, CHOOSE i \in 1..Len(s) :
                        UnitAt(s, i, unit) /\ \A j \in 1..(i - 1) : ~UnitAt(s, j, unit))
    ELSE -1

\* 196: re.findall(r'(\d+(\.\d+)?)', s) from index i on
RECURSIVE FindNumbers(_, _)
FindNumbers(s, i) ==
    IF i > Len(s) THEN <<>>
    ELSE IF IsDigit(CharAt(s, i))
    THEN <<NumberAt(s, i)>> \o FindNumbers(s, NumberEnd(s, i) + 1)
    ELSE FindNumbers(s, i + 1)

\* 205-206
AgeResult(years, months) ==
    IF 0 < RoundDiv(12 * years + months, 12) /\ RoundDiv(12 * years + months, 12) < 15000
    THEN FloatStr(RoundDiv(12 * years + months, 12))
    ELSE "None"

\* 189-193: the suffixes found
SuffixAge(y, m) ==
    AgeResult(IF y < 0 \/ y > 190000 THEN 0 ELSE y, IF m < 0 THEN 0 ELSE m)

\* 195-204: no suffix, the numbers in their order
PlainAge(nums) ==
    IF nums = <<>> THEN AgeResult(0, 0)
    ELSE IF nums[1] > 190000
    THEN AgeResult(IF Len(nums) >= 2 THEN nums[2] ELSE 0, IF Len(nums) >= 3 THEN nums[3] ELSE 0)
    ELSE AgeResult(nums[1], IF Len(nums) >= 2 THEN nums[2] ELSE 0)

\* 168-206, on the lowered and stripped text
ParseAgeText(age_str) ==
    IF IsFloatText(clean_num(age_str))
    THEN (IF ParseFloat(clean_num(age_str)) < 15000
          THEN FloatStr(ParseFloat(clean_num(age_str))) ELSE "None")
    ELSE IF LooksLikeDate(age_str) THEN "None"
    ELSE IF UnitValue(age_str, "y") >= 0 \/ UnitValue(age_str, "m") >= 0
    THEN SuffixAge(UnitValue(age_str, "y"), UnitValue(age_str, "m"))
    ELSE PlainAge(FindNumbers(age_str, 1))

parse_age(age_val) ==
    IF IsNA(age_val) \/ age_val = "" THEN "None" ELSE ParseAgeText(Strip(Lower(age_val)))

(***************************************************************************)
(* Dates (src/app.py 518-521, 628-646).  A date cell is the text of a      *)
(* Timestamp, "YYYY-MM-DD 00:00:00"; the sheets of the model write dates   *)
(* as "YYYY-MM-DD".                                                        *)
(***************************************************************************)
IsIsoDate(v) ==
    /\ Len(v) = 10
    /\ CharAt(v, 5) = "-" /\ CharAt(v, 8) = "-"
    /\ AllDigits(SubSeq(v, 1, 4)) /\ AllDigits(SubSeq(v, 6, 7)) /\ AllDigits(SubSeq(v, 9, 10))
    /\ DigitsVal(SubSeq(v, 6, 7)) \in 1..12
    /\ DigitsVal(SubSeq(v, 9, 10)) \in 1..28

\* 521: pd.to_datetime(errors="coerce")
to_datetime(v) == IF IsIsoDate(v) THEN v \o " 00:00:00" ELSE "NaT"

date_cols == <<"DATE_F", "enrollment_date", "DOB", "Sample Collected Date">>

\* 518-521
RECURSIVE StageDates(_, _)
StageDates(row, cols) ==
    IF cols = <<>> THEN row
    ELSE StageDates(Apply(row, Head(cols), to_datetime(row[Head(cols)])), Tail(cols))

\* days since 1970-01-01 of a date of the proleptic Gregorian calendar,
\* with the year counted from March
DaysOfMarchYear(y, mp, d) ==
    (y \div 400) * 146097 + (y % 400) * 365 + (y % 400) \div 4 - (y % 400) \div 100
    + (153 * mp + 2) \div 5 + d - 1 - 719468

DaysFromCivil(y, m, d) ==
    IF m <= 2 THEN DaysOfMarchYear(y - 1, m + 9, d) ELSE DaysOfMarchYear(y, m - 3, d)

\* .dt.days of a Timestamp cell
DateDays(ts) ==
    DaysFromCivil(DigitsVal(SubSeq(ts, 1, 4)), DigitsVal(SubSeq(ts, 6, 7)),
                  DigitsVal(SubSeq(ts, 9, 10)))

\* pd.Timestamp.now() at 630: the day the refresh runs
Today == "2026-01-01 00:00:00"

\* 641-644: (diff / 365.25).round(2), kept when 0 <= x < 150
DobAge(diff) ==
    IF diff >= 0 /\ RoundDiv(diff * 10000, 36525) < 15000
    THEN FloatStr(RoundDiv(diff * 10000, 36525))
    ELSE "nan"

\* 628-644: the age of a row whose parsed age is missing and whose DOB is not
ResolveAge(row, parsed) ==
    IF "DOB" \in DOMAIN row /\ IsNA(parsed) /\ ~IsNA(row["DOB"])
    THEN DobAge(DateDays(IF IsNA(row["enrollment_date"]) THEN Today
                         ELSE row["enrollment_date"])
                - DateDays(row["DOB"]))
    ELSE parsed

\* 622-644
StageAge(row) ==
    With(row, "Age", ResolveAge(row, IF "Age" \in DOMAIN row THEN parse_age(row["Age"])
                                     ELSE "None"))

(***************************************************************************)
(* The renaming of synonym columns (src/app.py 531-555).                   *)
(***************************************************************************)
\* 533: c.lower().replace("_", " ")
ColKey(c) == ReplaceAll(Lower(c), "_", " ")

\* df.rename(columns={from: to})
Renamed(row, from, to) ==
    [c \in (DOMAIN row \ {from}) \cup {to} |-> IF c = to THEN row[from] ELSE row[c]]

\* the if/elif chains of 536-553: the column of the first key that is there
\* gets the name to
RECURSIVE RenameFirst(_, _, _)
RenameFirst(row, keys, to) ==
    IF keys = <<>> THEN row
    ELSE IF \E c \in DOMAIN row : ColKey(c) = Head(keys)
    THEN Renamed(row, CHOOSE c \in DOMAIN row : ColKey(c) = Head(keys), to)
    ELSE RenameFirst(row, Tail(keys), to)

\* 536-553
RenameIf(row, cond, keys, to) == IF cond THEN RenameFirst(row, keys, to) ELSE row

RenameDiet(row) ==
    RenameIf(RenameIf(row, "diet 1" \notin DOMAIN row, <<"diet">>, "Diet 1"),
             "diet 2" \notin DOMAIN row, <<"diet1">>, "Diet 2")

RenameContact(row) ==
    RenameIf(row, "aasha_contact" \notin DOMAIN row,
             <<"aasha contact", "asha contact", "asha number", "contact",
               "aasha contact number">>, "Aasha_Contact")

\* 531-555
StageRename(row) ==
    RenameDiet(RenameContact(
        RenameIf(row, "asha_worker" \notin DOMAIN row,
                 <<"asha worker", "asha", "ashaworker">>, "Asha_Worker")))

\* a mutant of ProcessRow that classifies the nutritional status before the
\* age is resolved
ProcessRowLateAge(raw, i, z) ==
    StageAnemia(StagePhone(StageTitles(StageBeneficiary(StageLocation(StageAreaCode(
        StageAge(StageNutrition(StageBMI(StageRename(StageNumeric(StageDates(StageRequired(
            MaskCols(StageContact(StageSlNo(raw, i)), readable_masked_cols)), date_cols)))),
                 z))))))))

\* the stages in the order load_data runs them; the stages for columns that no
\* sheet of this model carries (anemia_category 660-663, BlockCode 671-682)
\* leave its rows as they are
ProcessRow(raw, i, z) ==
    StageAnemia(StagePhone(StageTitles(StageBeneficiary(StageLocation(StageAreaCode(
        StageNutrition(StageAge(StageBMI(StageRename(StageNumeric(StageDates(StageRequired(
            MaskCols(StageContact(StageSlNo(raw, i)), readable_masked_cols)), date_cols))))),
                       z)))))))

(***************************************************************************)
(* The external data source.  A fetch either fails (timeout, network or    *)
(* HTTP error) or returns the rows of the sheet.                           *)
(***************************************************************************)
\* a row of the sheet
SheetRow(id, hgb, group, worker) ==
    [ID |-> id, HGB |-> hgb, Benificiery |-> group, Aasha_Contact |-> "9876543210",
     Asha_Worker |-> worker]

\* the sheets the source is seen to hold: one subject; the subject measured twice,
\* with a row without ID in between; rows without a usable ID; a sheet without
\* the contact column
Snapshots ==
    { <<SheetRow("X", "9.5", "2", "asha devi")>>,
      <<SheetRow("X", "9.5", "2", "asha devi"), SheetRow("  ", "9.5", "7", "asha devi"),
        SheetRow("X", "12.1", "2", "asha devi")>>,
      <<SheetRow("  ", "9.5", "7", "asha devi"), SheetRow("NaN", "9.5", "7", "asha devi"),
        SheetRow("Y", "10.4", "7", "asha devi")>>,
      <<[ID |-> "Y", HGB |-> "12.1", Benificiery |-> "7"]>> }

FetchOutcomes ==
    {[kind |-> "error", msg |-> "timeout", rows |-> <<>>],
     [kind |-> "ok", msg |-> "", rows |-> <<>>]}
    \cup {[kind |-> "ok", msg |-> "", rows |-> sn] : sn \in Snapshots}

NoFetch == [kind |-> "none", msg |-> "", rows |-> <<>>]

\* load_data: (df, status_message, is_error); z is what the growth-chart call
\* yields for the rows.  630 raises KeyError for a sheet with a DOB column and
\* no enrollment_date column, 721 for a sheet without the Benificiery column.
load_data_z(f, z) ==
    IF f.kind = "error"
    THEN [df |-> <<>>, status |-> "Script Error: " \o f.msg, is_error |-> TRUE]
    ELSE IF f.rows = <<>>
    THEN [df |-> <<>>, status |-> "No Data in Script", is_error |-> TRUE]
    ELSE IF "DOB" \in DOMAIN f.rows[1] /\ "enrollment_date" \notin DOMAIN f.rows[1]
    THEN [df |-> <<>>, status |-> "Script Error: 'enrollment_date'", is_error |-> TRUE]
    ELSE IF "Benificiery" \notin DOMAIN f.rows[1]
    THEN [df |-> <<>>, status |-> "Script Error: 'Benificiery'", is_error |-> TRUE]
    ELSE [df |-> SelectSeq([i \in 1..Len(f.rows) |-> ProcessRow(f.rows[i], i, z)],
                           Retained),
          status |-> "Live", is_error |-> FALSE]

\* load_data for sheets whose rows the growth chart has nothing for
load_data(f) == load_data_z(f, "none")

\* load_data of every fetch outcome, evaluated once
LoadResults == [f \in FetchOutcomes |-> load_data(f)] @@ (<<>>)

(***************************************************************************)
(* Change detection (src/app.py 370-445).                                  *)
(***************************************************************************)
sync_cols ==
    <<"SL.NO", "ID", "enrollment_date", "Area Code", "PSU Name",
      "Name", "Gender", "Benificiery", "HGB", "anemia_category",
      "Length", "Height", "Weight", "Age", "whatsapp",
      "Diet 1", "Diet 2", "field_investigator", "Asha_Worker", "data_operator",
      "Sample Collected Date", "bmi_category", "BMI", "Email", "Status">>

\* 391
cols_to_use(row) == SelectSeq(sync_cols, LAMBDA c : c \in DOMAIN row)

\* 402-403
row_sig(row) ==
    Join([i \in 1..Len(cols_to_use(row)) |-> Strip(Get(row, cols_to_use(row)[i], ""))], "|")

\* 398
p_id_of(row) == Strip(Get(row, "ID", ""))

\* 399
SkipsRow(row) == p_id_of(row) = "" \/ Lower(p_id_of(row)) = "nan"

\* a mutant of IsDiff that pushes a row only when its id is new
IsDiffNewOnly(cache, row) == p_id_of(row) \notin DOMAIN cache

\* 406, with the cache the comparison reads
IsDiff(cache, row) ==
    p_id_of(row) \notin DOMAIN cache \/ cache[p_id_of(row)] # row_sig(row)

\* 424-432: the JSON records of the request; NaN becomes null
payload_of(diff_rows) ==
    [i \in 1..Len(diff_rows) |->
       [c \in DOMAIN diff_rows[i] |->
          IF diff_rows[i][c] = "nan" THEN "None" ELSE diff_rows[i][c]]]

EmptyMap == <<>>

\* the responses of the external store to the push
Responses ==
    {[kind |-> "response", status |-> 200, body |-> "OK"],
     [kind |-> "response", status |-> 200, body |-> "{\"message\": \"ok\"}"],
     [kind |-> "response", status |-> 200, body |-> "{\"message\": "],
     [kind |-> "response", status |-> 201, body |-> "OK"],
     [kind |-> "response", status |-> 500, body |-> "error"],
     [kind |-> "exception", status |-> 0, body |-> ""]}

NoResp == [kind |-> "none", status |-> 0, body |-> ""]

\* the bodies json.loads accepts, among those of Responses
ValidJson(body) == body = "{\"message\": \"ok\"}"

\* 439: r.json() is evaluated when the text starts with "{" and raises on invalid JSON
JsonRaises(body) == Len(body) >= 1 /\ SubSeq(body, 1, 1) = "{" /\ ~ValidJson(body)

\* a mutant of PushConfirmed that commits on every response
PushConfirmedAnyResponse(resp) == resp.kind = "response"

\* 435-441: the commit statement is reached
PushConfirmed(resp) ==
    resp.kind = "response" /\ resp.status = 200 /\ ~JsonRaises(resp.body)

(***************************************************************************)
(* The display and the export (internal_update_dashboard, export_data),    *)
(* with no filter chosen.                                                  *)
(***************************************************************************)
\* the columns of a frame: those of its rows
ColumnsOf(records) == IF records = <<>> THEN {} ELSE DOMAIN records[1]

\* 1889: drop_duplicates(subset=["ID"], keep="last")
RECURSIVE drop_duplicates_last(_)
drop_duplicates_last(records) ==
    IF records = <<>> THEN <<>>
    ELSE IF \E j \in 2..Len(records) : records[j]["ID"] = Head(records)["ID"]
    THEN drop_duplicates_last(Tail(records))
    ELSE <<Head(records)>> \o drop_duplicates_last(Tail(records))

\* 1892
NumericHgbAll(uniq) ==
    [i \in 1..Len(uniq) |-> Apply(uniq[i], "HGB", to_numeric(uniq[i]["HGB"]))]

\* the order of sort_values(ascending=True): e goes after x when x has a date
\* and e has none (NaT is put last) or a later one
SortsAfter(e, x) ==
    /\ ~IsNA(x["Sample Collected Date"])
    /\ \/ IsNA(e["Sample Collected Date"])
       \/ DateDays(e["Sample Collected Date"]) > DateDays(x["Sample Collected Date"])

RECURSIVE InsertByDate(_, _)
InsertByDate(sorted, x) ==
    IF sorted = <<>> THEN <<x>>
    ELSE IF SortsAfter(Head(sorted), x) THEN <<x>> \o sorted
    ELSE <<Head(sorted)>> \o InsertByDate(Tail(sorted), x)

\* 1881-1883: the date cells are Timestamps or NaT since 518-521; rows of the
\* same date keep their order
RECURSIVE sort_values(_)
sort_values(records) ==
    IF records = <<>> THEN <<>>
    ELSE IF "Sample Collected Date" \notin ColumnsOf(records) THEN records
    ELSE InsertByDate(sort_values(SubSeq(records, 1, Len(records) - 1)),
                      records[Len(records)])

\* 1877-1893: df_full
df_full(records) ==
    IF "ID" \in ColumnsOf(records)
    THEN NumericHgbAll(drop_duplicates_last(
             SelectSeq(sort_values(records),
                       LAMBDA r : ~IsNA(r["ID"]) /\ Strip(r["ID"]) # "")))
    ELSE records

\* 2147-2158 and 3064-3075: mask_pii_display / mask_pii
ShownDigits == 4

mask_pii_display(val, is_phone) ==
    IF IsNA(val) \/ val = "" THEN val
    ELSE IF is_phone
    THEN IF Len(val) > ShownDigits
         THEN Repeat("*", Len(val) - ShownDigits)
              \o SubSeq(val, Len(val) - ShownDigits + 1, Len(val))
         ELSE val
    ELSE IF Len(val) > 1 THEN CharAt(val, 1) \o Repeat("*", Len(val) - 1) ELSE "*"

\* 2161-2168, 2604-2609, 3077-3084
MaskForDisplay(row) ==
    Apply(Apply(Apply(row, "Aasha_Contact", mask_pii_display(row["Aasha_Contact"], TRUE)),
                "Name", mask_pii_display(row["Name"], FALSE)),
          "Household Name", mask_pii_display(row["Household Name"], FALSE))

\* 2111-2124: the workers a grouped message exists for
asha_summaries(records) ==
    IF "Asha_Worker" \in ColumnsOf(records)
    THEN {records[i]["Asha_Worker"] :
            i \in {j \in 1..Len(records) :
                     Lower(records[j]["anemia_category"]) \in {"mild", "moderate", "severe"}}}
    ELSE {}

\* 2127-2138: the link is built on the unmasked contact
generate_wa_link(row, summaries) ==
    IF /\ Lower(Get(row, "anemia_category", "")) \in {"mild", "moderate", "severe"}
       /\ Get(row, "_real_contact", Get(row, "Aasha_Contact", "")) \notin {"", "nan"}
       /\ Get(row, "Asha_Worker", "None") \in summaries
    THEN "https://wa.me/" \o Get(row, "_real_contact", Get(row, "Aasha_Contact", ""))
    ELSE ""

\* 2141: df, the frame every table is cut from
WithLinks(full, summaries) ==
    [i \in 1..Len(full) |-> With(full[i], "whatsapp", generate_wa_link(full[i], summaries))]

LinkedFrame(full) == WithLinks(full, asha_summaries(full))

df_display(records) == LinkedFrame(df_full(records))

\* 2143-2183 and 2797: the records handed to the main table; the selection
\* of the displayed columns (2171) is commented out
TitleAll(row) == [c \in DOMAIN row |-> Title(row[c])]

\* 741-749 and 1852-1858: generate_weekly_summary groups the anemic rows by
\* "Asha_Worker"; without that column the groupby raises and update_dashboard
\* hands empty data to every table
SummaryRaises(df) ==
    /\ "Asha_Worker" \notin ColumnsOf(df)
    /\ \E i \in 1..Len(df) : df[i]["anemia_category"] \in {"severe", "moderate", "mild"}

df_table(df) ==
    IF SummaryRaises(df) THEN <<>>
    ELSE [i \in 1..Len(df) |-> With(TitleAll(MaskForDisplay(df[i])), "Sl.No", NatStr(i))]

table_records(records) == df_table(df_display(records))

\* 2614, 2626 and 3186: the key built on the raw worker name
notify_key(row) == Get(row, "Asha_Worker", "None") \o "_" \o Get(row, "ID", "None")

get_notify_status(ledger, row) ==
    IF notify_key(row) \in DOMAIN ledger
    THEN "Sent(" \o ledger[notify_key(row)] \o ")"
    ELSE "Pending"

get_reset_icon(ledger, row) == IF notify_key(row) \in DOMAIN ledger THEN "x" ELSE ""

\* 2596-2642: the records handed to one table of the treat page
\* 2603-2642: the rows of one treat table
TreatTable(part, ledger) ==
    IF SummaryRaises(part) THEN <<>>
    ELSE [i \in 1..Len(part) |->
            With(With(With(MaskForDisplay(part[i]),
                           "notify_status", get_notify_status(ledger, part[i])),
                      "reset_btn", get_reset_icon(ledger, part[i])),
                 "Sl.No", NatStr(i))]

treat_records(records, category, ledger) ==
    TreatTable(SelectSeq(df_display(records),
                         LAMBDA r : Lower(r["anemia_category"]) = category),
               ledger)

\* 3086-3094: the columns the export drops
cols_to_remove == {"_real_contact", "email", "status"}

DropsColumn(c) == c \in cols_to_remove \/ Lower(c) \in {"email", "status"}

\* 3041-3107: the rows written to the CSV or the workbook
ExportRow(m) == [c \in {k \in DOMAIN m : ~DropsColumn(k)} |-> m[c]]

export_data(records) == [i \in 1..Len(records) |-> ExportRow(MaskForDisplay(records[i]))]

(***************************************************************************)
(* State.                                                                  *)
(***************************************************************************)
VARIABLES
    refreshes,        \* refresh cycles run so far
    fetched,          \* what the last fetch of the data source returned
    stored_data,      \* the "stored-data" store that refresh_data returns into
    LAST_SYNC_CACHE,  \* the in-memory sync cache: id -> signature
    CACHE_FILE,       \* sync_cache.json
    sync,             \* the background sync threads: slot -> frame of sync_data_to_sheets
    last,             \* history: the last run of sync_data_to_sheets that sent a push,
                      \* and whether the disk accepted a write in it
    NOTIFIED_CACHE,   \* the in-memory notification ledger: key -> timestamp
    NOTIFIED_FILE,    \* notified_ashas.json
    handler,          \* the ledger callbacks in progress: request thread -> frame
    clicks,           \* ledger callbacks started so far
    ledger_log,       \* history: the keys the returned callbacks notified and reset
    probe             \* one call of load_data or of a classifier on its own:
                      \* the function, its arguments and what it returned

vars == <<refreshes, fetched, stored_data, LAST_SYNC_CACHE, CACHE_FILE, sync, last,
          NOTIFIED_CACHE, NOTIFIED_FILE, handler, clicks, ledger_log, probe>>

sync_state == <<refreshes, fetched, stored_data, LAST_SYNC_CACHE, CACHE_FILE, sync, last>>

ledger_state == <<NOTIFIED_CACHE, NOTIFIED_FILE, handler, clicks, ledger_log>>

\* what the ledger callbacks leave alone, and what the refresh cycle leaves alone
sync_vars == <<sync_state, probe>>

ledger_vars == <<ledger_state, probe>>

\* no call is examined on its own
NoProbe == [fn |-> "none", args |-> <<>>, done |-> FALSE, out |-> ""]

\* the threads that can run sync_data_to_sheets at the same time
Threads == {1, 2}

\* a persisted JSON file: absent, unreadable, or holding a map
AbsentFile == [exists |-> FALSE, readable |-> FALSE, data |-> EmptyMap]
FileOf(map) == [exists |-> TRUE, readable |-> TRUE, data |-> map]

\* a file that json.load raises on: what it held can no longer be read
CorruptFile(map) == [exists |-> TRUE, readable |-> FALSE, data |-> map]

\* a mutant of LoadMap that takes whatever the file holds
LoadMapUnchecked(file) == IF file.exists THEN file.data ELSE EmptyMap

\* load_sync_cache / load_notified_cache (103-114, 130-140)
LoadMap(file) == IF file.exists /\ file.readable THEN file.data ELSE EmptyMap

IdleSync ==
    [pc |-> "idle", df |-> <<>>, i |-> 0, diff_rows |-> <<>>,
     temp_cache |-> EmptyMap, solo |-> FALSE]

NoRun ==
    [df |-> <<>>, rows |-> <<>>, payload |-> <<>>, resp |-> NoResp, ok |-> FALSE,
     solo |-> FALSE, disk_ok |-> TRUE]

NoData == [records |-> <<>>, status |-> "", is_error |-> FALSE]

SyncInit ==
    /\ refreshes = 0
    /\ fetched = NoFetch
    /\ stored_data = NoData
    /\ CACHE_FILE = AbsentFile
    /\ LAST_SYNC_CACHE = LoadMap(CACHE_FILE)
    /\ sync = [t \in Threads |-> IdleSync]
    /\ last = NoRun

(***************************************************************************)
(* refresh_data (1802-1815).                                               *)
(***************************************************************************)
\* a mutant of StartsSync that starts the push whatever load_data reports
StartsSyncAlways(res) == TRUE

\* 1807
StartsSync(res) == ~res.is_error /\ res.df # <<>>

\* a mutant of StoredOf that returns the records of the cycle before while a
\* push is still unanswered
StoredOfAnswered(res) ==
    IF \E t \in Threads : sync[t].pc = "post" THEN stored_data
    ELSE [records |-> res.df, status |-> res.status, is_error |-> res.is_error]

\* 1810-1815
StoredOf(res) == [records |-> res.df, status |-> res.status, is_error |-> res.is_error]

\* 1806-1815, with res what load_data returned
Refreshed(f, res) ==
    /\ fetched' = f
    /\ refreshes' = refreshes + 1
    /\ stored_data' = StoredOf(res)
    /\ IF StartsSync(res)
       THEN \E t \in Threads :
              /\ sync[t].pc = "idle"
              /\ \A u \in Threads : u < t => sync[u].pc # "idle"
              /\ sync' = [u \in Threads |->
                           IF u = t
                           THEN [pc |-> "start", df |-> res.df, i |-> 1,
                                 diff_rows |-> <<>>, temp_cache |-> EmptyMap,
                                 solo |-> \A v \in Threads : sync[v].pc = "idle"]
                           ELSE [sync[u] EXCEPT !.solo = FALSE]]
       ELSE sync' = sync

RefreshData ==
    /\ refreshes < MaxRefresh
    /\ \E f \in FetchOutcomes : Refreshed(f, LoadResults[f])
    /\ UNCHANGED <<LAST_SYNC_CACHE, CACHE_FILE, last>>
    /\ UNCHANGED ledger_vars

(***************************************************************************)
(* sync_data_to_sheets (370-445), one thread.                              *)
(***************************************************************************)
\* 375-395: the empty check and the copy of the cache
SyncBegin(t) ==
    /\ sync[t].pc = "start"
    /\ sync' = [sync EXCEPT ![t] =
                  IF sync[t].df = <<>> THEN IdleSync
                  ELSE [@ EXCEPT !.pc = "diff", !.temp_cache = LAST_SYNC_CACHE]]
    /\ UNCHANGED <<refreshes, fetched, stored_data, LAST_SYNC_CACHE, CACHE_FILE, last>>
    /\ UNCHANGED ledger_vars

\* 397-408: one iteration of the diffing loop
DiffStep(frame, row) ==
    IF SkipsRow(row) THEN [frame EXCEPT !.i = @ + 1]
    ELSE IF IsDiff(LAST_SYNC_CACHE, row)
    THEN [frame EXCEPT !.i = @ + 1,
                       !.diff_rows = Append(@, row),
                       !.temp_cache = (p_id_of(row) :> row_sig(row)) @@ @]
    ELSE [frame EXCEPT !.i = @ + 1]

SyncDiffRow(t) ==
    /\ sync[t].pc = "diff"
    /\ sync[t].i <= Len(sync[t].df)
    /\ sync' = [sync EXCEPT ![t] = DiffStep(sync[t], sync[t].df[sync[t].i])]
    /\ UNCHANGED <<refreshes, fetched, stored_data, LAST_SYNC_CACHE, CACHE_FILE, last>>
    /\ UNCHANGED ledger_vars

\* 410-432: nothing to send, or the payload is built
SyncDiffEnd(t) ==
    /\ sync[t].pc = "diff"
    /\ sync[t].i > Len(sync[t].df)
    /\ sync' = [sync EXCEPT ![t] =
                  IF sync[t].diff_rows = <<>> THEN IdleSync ELSE [@ EXCEPT !.pc = "post"]]
    /\ UNCHANGED <<refreshes, fetched, stored_data, LAST_SYNC_CACHE, CACHE_FILE, last>>
    /\ UNCHANGED ledger_vars

\* 435-445: the request, its answer, and the commit of the candidate map
SyncPost(t) ==
    /\ sync[t].pc = "post"
    /\ \E resp \in Responses, disk_ok \in BOOLEAN :
         /\ last' = [df |-> sync[t].df, rows |-> sync[t].diff_rows,
                     payload |-> payload_of(sync[t].diff_rows), resp |-> resp,
                     ok |-> PushConfirmed(resp), solo |-> sync[t].solo,
                     disk_ok |-> disk_ok]
         /\ IF PushConfirmed(resp)
            THEN /\ LAST_SYNC_CACHE' = sync[t].temp_cache
                 \* 116-121: a failed write is swallowed and leaves the file as it was
                 /\ CACHE_FILE' = IF disk_ok THEN FileOf(sync[t].temp_cache) ELSE CACHE_FILE
            ELSE /\ disk_ok
                 /\ UNCHANGED <<LAST_SYNC_CACHE, CACHE_FILE>>
    /\ sync' = [sync EXCEPT ![t] = IdleSync]
    /\ UNCHANGED <<refreshes, fetched, stored_data>>
    /\ UNCHANGED ledger_vars

(***************************************************************************)
(* The notification ledger: reset_asha_status (2808-2845),                 *)
(* update_asha_notification_status (2853-2921), handle_table_actions       *)
(* (2933-3016), trigger_bulk_notify (3126-3218).  A callback is a frame in *)
(* one of the server's request threads; the statements that read or write  *)
(* the ledger are its steps.                                               *)
(***************************************************************************)
\* the request threads that can run a ledger callback at the same time
Handlers == {1, 2}

StartsWith(s, pre) == Len(s) >= Len(pre) /\ SubSeq(s, 1, Len(pre)) = pre

EndsWith(s, suf) == Len(s) >= Len(suf) /\ SubSeq(s, Len(s) - Len(suf) + 1, Len(s)) = suf

IsAnemic(row) == Lower(Get(row, "anemia_category", "")) \in {"mild", "moderate", "severe"}

\* 2907-2908, 2975-2976: a missing worker name becomes the empty string
MissingName(a) == a = "" \/ Lower(a) \in {"nan", "none", "missing"}

\* a mutant of ledger_key that writes "None" for a missing worker name
ledger_key_none(row) ==
    (IF MissingName(Get(row, "Asha_Worker", "")) THEN "None" ELSE Get(row, "Asha_Worker", ""))
    \o "_" \o Get(row, "ID", "None")

\* 2910, 3002
ledger_key(row) ==
    (IF MissingName(Get(row, "Asha_Worker", "")) THEN "" ELSE Get(row, "Asha_Worker", ""))
    \o "_" \o Get(row, "ID", "None")

\* 2885-2897: the rows a worker's notify button marks
target_rows(records, asha_clicked) ==
    SelectSeq(records,
              LAMBDA r : /\ IF asha_clicked = "Asha Details Missing"
                            THEN IsNA(r["Asha_Worker"]) \/ r["Asha_Worker"] = ""
                                 \/ Lower(r["Asha_Worker"]) = "nan"
                            ELSE r["Asha_Worker"] = asha_clicked
                         /\ IsAnemic(r))

\* 743-760, 2646-2666: the workers a card with buttons is drawn for
\* the first of the rows at the positions idx that names worker a
FirstOf(df, idx, a) ==
    CHOOSE i \in idx : /\ df[i]["Asha_Worker"] = a
                       /\ \A j \in idx : df[j]["Asha_Worker"] = a => i <= j

\* 743-747: the anemic rows that name a worker
AnemicNamed(df) ==
    {i \in 1..Len(df) : /\ df[i]["anemia_category"] \in {"severe", "moderate", "mild"}
                        /\ ~IsNA(df[i]["Asha_Worker"])}

\* 752-760: show_whatsapp (the sort of 747 orders the rows of a worker; the
\* sheets here hold one anemic row for each worker)
CardsWithButtons(df, anemic) ==
    {a \in {df[i]["Asha_Worker"] : i \in anemic} :
       /\ ~MissingName(a)
       /\ Lower(Get(df[FirstOf(df, anemic, a)], "Aasha_Contact", ""))
             \notin {"nan", "none", ""}}

WorkersOf(df) ==
    IF "Asha_Worker" \notin ColumnsOf(df) THEN {} ELSE CardsWithButtons(df, AnemicNamed(df))

button_workers(records) == WorkersOf(df_display(records))

\* 3126-3187: the keys a bulk notification adds to the ledger
\* 3141-3147: the anemic rows with a worker and a contact
BulkRows(records) ==
    {i \in 1..Len(records) : /\ IsAnemic(records[i])
                             /\ ~IsNA(records[i]["Asha_Worker"])
                             /\ ~IsNA(records[i]["Aasha_Contact"])}

\* 3160-3166: the contact of the worker's first row is usable
Reachable(records, rows, a) ==
    /\ Strip(records[FirstOf(records, rows, a)]["Aasha_Contact"]) # ""
    /\ Lower(Strip(records[FirstOf(records, rows, a)]["Aasha_Contact"])) # "nan"

\* 3183-3188: the rows whose key is not yet in the ledger
Unnotified(records, rows, ledger) ==
    {j \in rows : /\ Reachable(records, rows, records[j]["Asha_Worker"])
                  /\ notify_key(records[j]) \notin DOMAIN ledger}

\* 3126-3188: the rows a bulk notification puts into its messages
bulk_rows(records, ledger) ==
    IF records = <<>> \/ ~({"Asha_Worker", "Aasha_Contact"} \subseteq ColumnsOf(records))
    THEN {}
    ELSE {records[j] : j \in Unnotified(records, BulkRows(records), ledger)}

\* 3195: the keys it adds to the ledger
bulk_keys(records, ledger) == {notify_key(r) : r \in bulk_rows(records, ledger)}

\* datetime.now().strftime("%d/%m %H:%M") at the n-th click
now_str(n) == "01/01 10:0" \o NatStr(n)

\* the worker and the ID a callback reads from a row
Subject(row) == <<Get(row, "Asha_Worker", "None"), Get(row, "ID", "None")>>

IdleFrame ==
    [pc |-> "idle", op |-> "none", keys |-> {}, rows |-> {}, pat |-> "", ts |-> ""]

\* history: the keys notified and reset, the stamps written, the rows a notify
\* action was taken on, and the kinds of reset taken
NoLog == [notified |-> {}, removed |-> {}, stamped |-> {}, rows |-> {}, reset |-> {}]

\* the keys a reset frame is after
Matches(k, frame) ==
    IF frame.op = "reset_worker" THEN StartsWith(k, frame.pat)
    ELSE IF frame.op = "reset_cell" THEN EndsWith(k, frame.pat)
    ELSE FALSE

Without(map, gone) == [k \in DOMAIN map \ gone |-> map[k]]

\* a mutant of Stamp that keeps the timestamp of a key already in the map
StampIfAbsent(map, keys, ts) ==
    [k \in DOMAIN map \cup keys |-> IF k \in DOMAIN map THEN map[k] ELSE ts]

Stamp(map, keys, ts) == [k \in DOMAIN map \cup keys |-> IF k \in keys THEN ts ELSE map[k]]

\* every key a frame of this model can name
KeyUniverse ==
    DOMAIN NOTIFIED_CACHE \cup DOMAIN NOTIFIED_FILE.data
    \cup {ledger_key(stored_data.records[i]) : i \in 1..Len(stored_data.records)}
    \cup {notify_key(stored_data.records[i]) : i \in 1..Len(stored_data.records)}

\* the callback of handler h returns; what it did is logged
Finish(h, frame) ==
    /\ handler' = [handler EXCEPT ![h] = IdleFrame]
    /\ ledger_log' =
         IF frame.op \in {"reset_worker", "reset_cell"}
         THEN [ledger_log EXCEPT !.removed = @ \cup {k \in KeyUniverse : Matches(k, frame)},
                                 !.reset = @ \cup {frame.op}]
         ELSE [ledger_log EXCEPT !.notified = @ \cup frame.keys,
                                 !.stamped = @ \cup {<<k, frame.ts>> : k \in frame.keys},
                                 !.rows = @ \cup frame.rows]

\* a request thread is free to take a click
CanBegin(h) == handler[h].pc = "idle" /\ clicks < MaxClicks

Begin(h, frame) ==
    /\ clicks' = clicks + 1
    /\ handler' = [handler EXCEPT ![h] = frame]
    /\ UNCHANGED <<NOTIFIED_CACHE, NOTIFIED_FILE, ledger_log>>
    /\ UNCHANGED sync_vars

\* 2933-2976: a click on the WhatsApp cell or the reset cell of a treat table
\* 2960-3002: a click on column col_id of row row_idx of the table data
ClickIn(h, data) ==
    \E col_id \in {"whatsapp", "reset_btn"}, row_idx \in 1..Len(data) :
       Begin(h, [pc |-> "load",
                 op |-> IF col_id = "whatsapp" THEN "notify_cell" ELSE "reset_cell",
                 keys |-> IF col_id = "whatsapp" THEN {ledger_key(data[row_idx])} ELSE {},
                 rows |-> IF col_id = "whatsapp" THEN {Subject(data[row_idx])} ELSE {},
                 pat |-> IF col_id = "whatsapp" THEN ""
                         ELSE "_" \o Get(data[row_idx], "ID", "None"),
                 ts |-> now_str(clicks + 1)])

ClickCell(h) ==
    /\ CanBegin(h)
    /\ \E cat \in {"severe", "moderate", "mild"} :
         ClickIn(h, treat_records(stored_data.records, cat, NOTIFIED_CACHE))

\* 2853-2899: a click on a worker's notify button
\* 2904-2910: the keys of the target rows
NotifyFrame(targets, ts) ==
    [pc |-> "load", op |-> "notify_worker",
     keys |-> {ledger_key(targets[i]) : i \in 1..Len(targets)},
     rows |-> {Subject(targets[i]) : i \in 1..Len(targets)},
     pat |-> "", ts |-> ts]

ClickNotifyWorker(h) ==
    /\ CanBegin(h)
    /\ \E asha_clicked \in button_workers(stored_data.records) :
          Begin(h, NotifyFrame(target_rows(stored_data.records, asha_clicked),
                               now_str(clicks + 1)))

\* 2808-2830: a click on a worker's reset button
ClickResetWorker(h) ==
    /\ CanBegin(h)
    /\ \E asha_to_reset \in button_workers(stored_data.records) :
          Begin(h, [pc |-> "mutate", op |-> "reset_worker", keys |-> {}, rows |-> {},
                    pat |-> IF asha_to_reset = "Asha Details Missing" THEN "_"
                            ELSE asha_to_reset \o "_",
                    ts |-> ""])

\* 3126-3128: a click on the bulk notify button
ClickBulk(h) ==
    /\ CanBegin(h)
    /\ stored_data.records # <<>>
    /\ Begin(h, [pc |-> "mutate", op |-> "bulk", keys |-> {}, rows |-> {}, pat |-> "",
                 ts |-> now_str(clicks + 1)])

\* 2902, 2973: load_notified_cache rebinds the global to what the file holds
LedgerLoad(h) ==
    /\ handler[h].pc = "load"
    /\ NOTIFIED_CACHE' = LoadMap(NOTIFIED_FILE)
    /\ handler' = [handler EXCEPT ![h].pc = "mutate"]
    /\ UNCHANGED <<NOTIFIED_FILE, clicks, ledger_log>>
    /\ UNCHANGED sync_vars

\* 2834-2840, 2904-2914, 2981-2995, 3002-3007, 3183-3195: the writes to the
\* global map, and whether the callback goes on to save
\* the callback goes on to save_notified_cache
Saves(op, gone, added) ==
    \/ op \in {"notify_cell", "reset_worker"}
    \/ op = "reset_cell" /\ gone # {}
    \/ op \in {"notify_worker", "bulk"} /\ added # {}

\* with gone the keys the frame removes and after the frame once the keys it
\* stamps are known
Mutated(h, frame, gone, after) ==
    /\ NOTIFIED_CACHE' =
          IF frame.op \in {"reset_worker", "reset_cell"}
          THEN Without(NOTIFIED_CACHE, gone)
          ELSE Stamp(NOTIFIED_CACHE, after.keys, frame.ts)
    /\ IF Saves(frame.op, gone, after.keys)
       THEN /\ handler' = [handler EXCEPT ![h] = [after EXCEPT !.pc = "save"]]
            /\ UNCHANGED ledger_log
       ELSE Finish(h, after)

\* 3183-3195: the bulk callback finds its rows when it runs
Resolved(frame) ==
    IF frame.op = "bulk"
    THEN [frame EXCEPT !.keys = bulk_keys(stored_data.records, NOTIFIED_CACHE),
                       !.rows = {Subject(r) : r \in bulk_rows(stored_data.records,
                                                              NOTIFIED_CACHE)}]
    ELSE frame

LedgerMutate(h) ==
    /\ handler[h].pc = "mutate"
    /\ Mutated(h, handler[h],
               {k \in DOMAIN NOTIFIED_CACHE : Matches(k, handler[h])},
               Resolved(handler[h]))
    /\ UNCHANGED <<NOTIFIED_FILE, clicks>>
    /\ UNCHANGED sync_vars

\* 2842, 2917, 2996, 3013, 3217: save_notified_cache (142-147) writes the
\* global as it is now
LedgerSave(h) ==
    /\ handler[h].pc = "save"
    /\ NOTIFIED_FILE' = FileOf(NOTIFIED_CACHE)
    /\ Finish(h, handler[h])
    /\ UNCHANGED <<NOTIFIED_CACHE, clicks>>
    /\ UNCHANGED sync_vars

LedgerInit0 ==
    /\ NOTIFIED_FILE = AbsentFile
    /\ NOTIFIED_CACHE = LoadMap(NOTIFIED_FILE)
    /\ handler = [h \in Handlers |-> IdleFrame]
    /\ clicks = 0
    /\ ledger_log = NoLog

Init == SyncInit /\ LedgerInit0 /\ probe = NoProbe

Next ==
    \/ RefreshData
    \/ \E t \in Threads : SyncBegin(t)
    \/ \E t \in Threads : SyncDiffRow(t)
    \/ \E t \in Threads : SyncDiffEnd(t)
    \/ \E t \in Threads : SyncPost(t)

Spec == Init /\ [][Next]_vars

\* the sheet the ledger is exercised on: two workers, and a subject without one
LedgerRows ==
    << [ID |-> "X", HGB |-> "9.5", Benificiery |-> "2",
        Aasha_Contact |-> "9876543210", Asha_Worker |-> "asha devi"],
       [ID |-> "Y", HGB |-> "6.5", Benificiery |-> "7",
        Aasha_Contact |-> "9876500000", Asha_Worker |-> "lakshmi"],
       [ID |-> "Z", HGB |-> "10.4", Benificiery |-> "7",
        Aasha_Contact |-> "9876511111", Asha_Worker |-> ""] >>

\* the state after the first refresh cycle has fetched the sheet rows, with
\* notified_ashas.json as an earlier session left it
AfterRefresh(rows, file) ==
    /\ refreshes = 1
    /\ fetched = [kind |-> "ok", msg |-> "", rows |-> rows]
    /\ stored_data = StoredOf(load_data(fetched))
    /\ CACHE_FILE = AbsentFile
    /\ LAST_SYNC_CACHE = LoadMap(CACHE_FILE)
    /\ sync = [t \in Threads |->
                 IF t = 1
                 THEN [pc |-> "start", df |-> stored_data.records, i |-> 1, diff_rows |-> <<>>,
                       temp_cache |-> EmptyMap, solo |-> TRUE]
                 ELSE IdleSync]
    /\ last = NoRun
    /\ probe = NoProbe
    /\ NOTIFIED_FILE = file
    /\ NOTIFIED_CACHE = LoadMap(NOTIFIED_FILE)
    /\ handler = [h \in Handlers |-> IdleFrame]
    /\ clicks = 0
    /\ ledger_log = NoLog

LedgerInit == AfterRefresh(LedgerRows, FileOf(("Old_W" :> "31/12 09:00")))

LedgerNext ==
    \/ \E h \in Handlers : ClickCell(h)
    \/ \E h \in Handlers : ClickNotifyWorker(h)
    \/ \E h \in Handlers : ClickResetWorker(h)
    \/ \E h \in Handlers : ClickBulk(h)
    \/ \E h \in Handlers : LedgerLoad(h)
    \/ \E h \in Handlers : LedgerMutate(h)
    \/ \E h \in Handlers : LedgerSave(h)

LedgerSpec == LedgerInit /\ [][LedgerNext]_vars

\* no ledger callback is in progress
LedgerQuiet == \A h \in Handlers : handler[h].pc = "idle"

\* sheets of anemic subjects for the ledger operations taken one at a time:
\* worker names that are missing, blank or the texts "nan" and "missing"; a
\* sheet without a worker column; a worker name that,
\* followed by "_", begins the key of another worker; an ID that ends with "_"
\* and another ID
ContractSheets ==
    { <<SheetRow("X", "9.5", "2", "asha devi"), SheetRow("Z", "9.5", "2", ""),
        SheetRow("N", "9.5", "2", "nan"), SheetRow("M", "9.5", "2", "None"),
        SheetRow("G", "9.5", "2", "missing")>>,
      <<[ID |-> "X", HGB |-> "9.5", Benificiery |-> "2", Aasha_Contact |-> "9876543210"]>>,
      <<SheetRow("X", "9.5", "2", "a"), SheetRow("Y", "9.5", "2", "a_")>>,
      <<SheetRow("Y", "9.5", "2", "asha devi"), SheetRow("X_Y", "9.5", "2", "lakshmi")>> }

\* the ledger file holds the entry an earlier worker of subject Y left
ContractInit ==
    \E rows \in ContractSheets : AfterRefresh(rows, FileOf(("Z****Z_Y" :> "31/12 09:00")))

\* one user: a click is taken when the callback of the click before has returned
ContractNext ==
    \/ \E h \in Handlers : LedgerQuiet /\ ClickCell(h)
    \/ \E h \in Handlers : LedgerQuiet /\ ClickNotifyWorker(h)
    \/ \E h \in Handlers : LedgerQuiet /\ ClickResetWorker(h)
    \/ \E h \in Handlers : LedgerQuiet /\ ClickBulk(h)
    \/ \E h \in Handlers : LedgerLoad(h)
    \/ \E h \in Handlers : LedgerMutate(h)
    \/ \E h \in Handlers : LedgerSave(h)

ContractSpec == ContractInit /\ [][ContractNext]_vars

(***************************************************************************)
(* A start on corrupt files: sync_cache.json and notified_ashas.json both  *)
(* exist and neither parses (103-114, 130-140 at import, 121 and 150).     *)
(***************************************************************************)
\* the state after the first refresh cycle of a process that found both files
\* corrupt when it was started
RecoveryInit ==
    /\ refreshes = 1
    /\ fetched = [kind |-> "ok", msg |-> "", rows |-> LedgerRows]
    /\ stored_data = StoredOf(load_data(fetched))
    /\ CACHE_FILE = CorruptFile(("X" :> "stale"))
    /\ LAST_SYNC_CACHE = LoadMap(CACHE_FILE)
    /\ sync = [t \in Threads |->
                 IF t = 1
                 THEN [pc |-> "start", df |-> stored_data.records, i |-> 1, diff_rows |-> <<>>,
                       temp_cache |-> EmptyMap, solo |-> TRUE]
                 ELSE IdleSync]
    /\ last = NoRun
    /\ probe = NoProbe
    /\ NOTIFIED_FILE = CorruptFile(("Old_W" :> "31/12 09:00"))
    /\ NOTIFIED_CACHE = LoadMap(NOTIFIED_FILE)
    /\ handler = [h \in Handlers |-> IdleFrame]
    /\ clicks = 0
    /\ ledger_log = NoLog

\* the sync thread of that cycle runs on, and one user clicks
RecoveryNext ==
    \/ \E t \in Threads : SyncBegin(t)
    \/ \E t \in Threads : SyncDiffRow(t)
    \/ \E t \in Threads : SyncDiffEnd(t)
    \/ \E t \in Threads : SyncPost(t)
    \/ ContractNext

RecoverySpec == RecoveryInit /\ [][RecoveryNext]_vars

(***************************************************************************)
(* load_data and classify_anemia_who on their own: one call on arguments   *)
(* drawn from the cells below.                                             *)
(***************************************************************************)
\* haemoglobin cells on both sides of every threshold, and two that are no number
HgbCells ==
    {"6.99", "7.0", "7.99", "8.0", "9.99", "10.0", "10.99", "11.0", "11.49", "11.5",
     "11.99", "12.0", "12.99", "13.0", "nan", "abc"}

\* age cells on both sides of the age bands, a missing age, and two that are no number
AgeCells == {"None", "", "abc", "4.99", "5.0", "11.99", "12.0", "30.0"}

\* gender cells: those the classifier reads as male or female, and others
GenderCells == {"Male", "Female", "f", "M", "girl", "boy", "Other", "", "None"}

\* the six categories of BENEFICIARY_MAP, and cells that are none of them
Categories == {BENEFICIARY_MAP[c] : c \in DOMAIN BENEFICIARY_MAP}

GroupCells == Categories \cup {"None", "Nan", "Other"}

\* a column the sheet does not have
Absent == "<absent>"

Present(row) == [c \in {k \in DOMAIN row : row[k] # Absent} |-> row[c]]

\* one-row sheets: with and without the HGB, Age, DOB and enrollment_date
\* columns, ages as numbers and as free text, the group as a code of the map,
\* an unknown code or blank
PipelineRows ==
    {Present([ID |-> "X", Benificiery |-> b, HGB |-> h, Gender |-> g, Age |-> a, DOB |-> d,
              enrollment_date |-> e, Weight |-> w, Height |-> "150",
              Asha_Worker |-> "asha devi"]) :
       b \in {"2", "9", ""}, h \in {Absent, "11.7", "12.5"}, g \in {"Male", "Female"},
       a \in {Absent, "", "4", "13", "30", "2y 6m", "2021-06-01"},
       d \in {Absent, "2012-01-01", "bad"}, e \in {Absent, "2024-01-01", ""},
       w \in {"40", "abc"}}

\* a child and an adult, for the sheets of two rows
BatchRow(id, age) ==
    [ID |-> id, Benificiery |-> "9", HGB |-> "11.7", Gender |-> "Male", Age |-> age,
     Weight |-> "40", Height |-> "150", Asha_Worker |-> "asha devi"]

\* a sheet that names the worker, the contact and the diet by synonyms
SynonymSheet ==
    <<With(With([ID |-> "X", HGB |-> "9.5", Benificiery |-> "2", Diet |-> "veg"],
                "asha worker", "asha devi"), "Asha Contact", "9876543210")>>

\* the sheets load_data is called on: every one-row sheet, two-row sheets,
\* a sheet without the beneficiary column, and the sheet of synonyms
PipelineSheets ==
    {<<row>> : row \in PipelineRows}
    \cup {<<BatchRow("X", "4"), BatchRow("Y", "30")>>,
          <<BatchRow("X", "30"), BatchRow("Y", "4")>>,
          <<[ID |-> "X", HGB |-> "9.5", Age |-> "30", Gender |-> "Female"]>>,
          SynonymSheet}

\* what the growth-chart call yields
ChartResults == {"none", "raise", "Overweight"}

\* age cells as the sheet writes them: numbers, among them zero, a negative
\* one and one past the limit, and free text
AgeTexts ==
    {"None", "", "0", "0.0", "-3", "0.5", "25", "149.99", "150", "200", "abc", "0 yrs",
     "3 yrs", "2y 6m", "6 months", "0 m", "2 6", "2021 3", "2021-06-01", "12/5", "200 y"}

\* a sheet row with its sample date
DatedRow(id, hgb, date) ==
    With([ID |-> id, HGB |-> hgb, Benificiery |-> "2", Asha_Worker |-> "asha devi"],
         "Sample Collected Date", date)

\* sheets of three measurements: subjects X and Y and rows without ID, with a
\* sample date or without one
DatedSheets ==
    {<<DatedRow(i1, "9.5", d1), DatedRow(i2, "10.5", d2), DatedRow(i3, "11.5", d3)>> :
       i1 \in {"X", "Y", "  "}, i2 \in {"X", "Y", "  "}, i3 \in {"X", "Y", "  "},
       d1 \in {"2024-01-01", "2024-03-01", ""}, d2 \in {"2024-01-01", "2024-03-01", ""},
       d3 \in {"2024-01-01", "2024-03-01", ""}}

Probes ==
    {[fn |-> "classify_anemia_who", args |-> <<h, a, g, b>>, done |-> FALSE, out |-> ""] :
       h \in HgbCells, a \in AgeCells, g \in GenderCells, b \in GroupCells}
    \cup {[fn |-> "load_data", args |-> <<sheet, z>>, done |-> FALSE, out |-> ""] :
             sheet \in PipelineSheets, z \in ChartResults}
    \cup {[fn |-> "df_full",
           args |-> <<load_data([kind |-> "ok", msg |-> "", rows |-> sheet]).df>>,
           done |-> FALSE, out |-> ""] : sheet \in DatedSheets}
    \cup {[fn |-> "parse_age", args |-> <<age_val>>, done |-> FALSE, out |-> ""] :
             age_val \in AgeTexts}

ClassifierInit == SyncInit /\ LedgerInit0 /\ probe \in Probes

Classify ==
    /\ probe.fn = "classify_anemia_who" /\ ~probe.done
    /\ probe' = [probe EXCEPT
                   !.done = TRUE,
                   !.out = classify_anemia_who(probe.args[1], probe.args[2],
                                               probe.args[3], probe.args[4])]
    /\ UNCHANGED <<sync_state, ledger_state>>

LoadData ==
    /\ probe.fn = "load_data" /\ ~probe.done
    /\ probe' = [probe EXCEPT
                   !.done = TRUE,
                   !.out = load_data_z([kind |-> "ok", msg |-> "", rows |-> probe.args[1]],
                                       probe.args[2])]
    /\ UNCHANGED <<sync_state, ledger_state>>

ParseAge ==
    /\ probe.fn = "parse_age" /\ ~probe.done
    /\ probe' = [probe EXCEPT !.done = TRUE, !.out = parse_age(probe.args[1])]
    /\ UNCHANGED <<sync_state, ledger_state>>

\* 1873-1893 on the records refresh_data stored
Deduplicate ==
    /\ probe.fn = "df_full" /\ ~probe.done
    /\ probe' = [probe EXCEPT !.done = TRUE, !.out = df_full(probe.args[1])]
    /\ UNCHANGED <<sync_state, ledger_state>>

ClassifierNext == Classify \/ LoadData \/ ParseAge \/ Deduplicate

ClassifierSpec == ClassifierInit /\ [][ClassifierNext]_vars

(***************************************************************************)
(* Properties of the sync cache.                                           *)
(***************************************************************************)
\* thread t leaves the request of sync_data_to_sheets in this step
Posts(t) == sync[t].pc = "post" /\ sync'[t].pc = "idle"

\* the answer is not a confirmed success: an exception, a status outside 2xx,
\* or a body whose decoding raises before the commit statement
Unconfirmed(resp) ==
    \/ resp.kind = "exception"
    \/ resp.status \notin 200..299
    \/ JsonRaises(resp.body)

\* a 2xx-style answer of the external store
Success2xx(resp) == resp.kind = "response" /\ resp.status \in 200..299

\* the signatures of the pushed rows that carry id p
PushedSigs(rows, p) ==
    {row_sig(rows[i]) : i \in {j \in 1..Len(rows) : p_id_of(rows[j]) = p}}

PushedIds(rows) == {p_id_of(rows[i]) : i \in 1..Len(rows)}

\* C1: a run of sync_data_to_sheets whose push is not confirmed successful
\* (non-success status, network exception, exception before the commit)
\* leaves LAST_SYNC_CACHE and the persisted cache file as they were.
C1_UnconfirmedPushKeepsCache ==
    [][\A t \in Threads :
          Posts(t) /\ Unconfirmed(last'.resp)
             => UNCHANGED <<LAST_SYNC_CACHE, CACHE_FILE>>]_vars

\* a failed push of a non-empty batch after an earlier committed one
C1_Witness ==
    /\ last.rows # <<>>
    /\ Unconfirmed(last.resp)
    /\ LAST_SYNC_CACHE # EmptyMap
    /\ CACHE_FILE = FileOf(LAST_SYNC_CACHE)

\* C2: whenever the external store answers the push with a 2xx response,
\* whatever the status and the body, LAST_SYNC_CACHE and the persisted file
\* both map every pushed id to the signature that was pushed (the file, when
\* the disk accepts the write).
C2_Every2xxCommits ==
    [][\A t \in Threads :
          Posts(t) /\ Success2xx(last'.resp) /\ last'.disk_ok
             => \A p \in PushedIds(last'.rows) :
                  /\ p \in DOMAIN LAST_SYNC_CACHE'
                  /\ LAST_SYNC_CACHE'[p] \in PushedSigs(last'.rows, p)
                  /\ CACHE_FILE'.exists /\ CACHE_FILE'.readable
                  /\ p \in DOMAIN CACHE_FILE'.data
                  /\ CACHE_FILE'.data[p] \in PushedSigs(last'.rows, p)]_vars

\* thread t has compared every row of its snapshot
DiffDone(t) == sync[t].pc = "diff" /\ sync[t].i > Len(sync[t].df)

\* thread t runs alone, on the snapshot of the last run that pushed, which
\* also ran alone
RunsAgain(t) ==
    /\ DiffDone(t)
    /\ sync[t].solo
    /\ last.solo
    /\ last.rows # <<>>
    /\ last.df = sync[t].df

RowsOf(seq) == {seq[i] : i \in 1..Len(seq)}

\* C3: for every snapshot, rows sharing an ID included, a run whose push
\* succeeded is followed, on the unchanged snapshot, by a run with zero diff
\* candidates.
C3_SecondRunFindsNothing ==
    \A t \in Threads :
       RunsAgain(t) /\ last.ok /\ last.disk_ok => sync[t].diff_rows = <<>>

\* C4: a record that was a candidate in a run whose push failed is a candidate
\* again in the next run on the same data, and a record whose push succeeded
\* is no candidate any more.
C4_RetryUntilDelivered ==
    \A t \in Threads :
       RunsAgain(t) =>
          \A r \in RowsOf(last.rows) :
             IF last.ok THEN r \notin RowsOf(sync[t].diff_rows)
             ELSE r \in RowsOf(sync[t].diff_rows)

\* what line 399 and line 406 say of a row, against a cache
BlankId(row) == Strip(row["ID"]) = "" \/ Lower(Strip(row["ID"])) = "nan"

Changed(cache, row) ==
    \/ Strip(row["ID"]) \notin DOMAIN cache
    \/ cache[Strip(row["ID"])] # row_sig(row)

\* C5: the batch holds exactly the rows whose ID is absent from the cache or
\* whose cached signature differs; a row with an unchanged signature or with
\* a blank or 'nan' ID is never in it; the whole batch goes in one request.
C5_BatchIsExactlyTheChangedRows ==
    [][\A t \in Threads :
          /\ (sync[t].pc = "diff" /\ sync'[t].pc = "diff" /\ sync'[t].i = sync[t].i + 1)
                => LET row == sync[t].df[sync[t].i] IN
                   sync'[t].diff_rows =
                      IF ~BlankId(row) /\ Changed(LAST_SYNC_CACHE, row)
                      THEN Append(sync[t].diff_rows, row)
                      ELSE sync[t].diff_rows
          /\ Posts(t)
                => /\ last'.rows = sync[t].diff_rows
                   /\ last'.payload = payload_of(sync[t].diff_rows)
                   /\ sync'[t].diff_rows = <<>>]_vars

\* a batch about to be sent that leaves out a row with a usable, cached ID
C5_Witness ==
    \E t \in Threads :
       /\ sync[t].pc = "post"
       /\ \E i \in 1..Len(sync[t].df) :
             /\ ~BlankId(sync[t].df[i])
             /\ sync[t].df[i] \notin RowsOf(sync[t].diff_rows)
       /\ \E i \in 1..Len(sync[t].df) : BlankId(sync[t].df[i])

\* C6: access to the sync cache is serialized; overlapping runs leave the
\* cache some serial execution leaves, so a commit loses no signature
\* committed for an ID the committing run did not push.
C6_NoLostCommit ==
    [][\A t \in Threads :
          Posts(t) /\ last'.ok
             => \A p \in DOMAIN LAST_SYNC_CACHE :
                   /\ p \in DOMAIN LAST_SYNC_CACHE'
                   /\ p \notin PushedIds(last'.rows)
                        => LAST_SYNC_CACHE'[p] = LAST_SYNC_CACHE[p]]_vars

(***************************************************************************)
(* Properties of a refresh cycle.                                          *)
(***************************************************************************)
\* this step is a refresh cycle
Refreshes == refreshes' = refreshes + 1

\* the fetch of the cycle failed, or brought nothing
FetchFailed(f) == f.kind = "error"

FetchEmpty(f) == f.kind = "ok" /\ f.rows = <<>>

\* C8: a refresh cycle whose fetch times out or fails is a no-update: the
\* record set of stored-data after the cycle is the one before it, never
\* replaced by an empty set.
C8_FailedFetchKeepsRecords ==
    [][Refreshes /\ FetchFailed(fetched')
          => stored_data'.records = stored_data.records]_vars

\* C9: on a fetch failure or an empty fetch result load_data returns an
\* empty record set, a status string and the error flag; refresh_data
\* stores that status and flag, starts no sync push, and leaves the sync
\* cache and the notification ledger unchanged.
C9_FailedFetchReportsAndStartsNothing ==
    [][Refreshes /\ (FetchFailed(fetched') \/ FetchEmpty(fetched'))
          => /\ stored_data'.records = <<>>
             /\ stored_data'.is_error
             /\ stored_data'.status =
                   IF FetchFailed(fetched') THEN "Script Error: " \o fetched'.msg
                   ELSE "No Data in Script"
             /\ UNCHANGED <<sync, last, LAST_SYNC_CACHE, CACHE_FILE>>
             /\ UNCHANGED <<NOTIFIED_CACHE, NOTIFIED_FILE>>]_vars

\* a failed cycle after a committed push, with nothing running
C9_Witness ==
    /\ FetchFailed(fetched)
    /\ stored_data.is_error
    /\ stored_data.records = <<>>
    /\ LAST_SYNC_CACHE # EmptyMap
    /\ \A t \in Threads : sync[t].pc = "idle"

\* the unmasked shadow contact is a column of some row
Leaks(records) == \E i \in 1..Len(records) : "_real_contact" \in DOMAIN records[i]

\* C10: the unmasked shadow contact appears in no row of the sync push
\* payload, of the export, or of the records handed to the tables.
C10_ShadowContactStaysInside ==
    /\ ~Leaks(last.payload)
    /\ ~Leaks(export_data(stored_data.records))
    /\ ~Leaks(table_records(stored_data.records))
    /\ \A cat \in {"severe", "moderate", "mild"} :
          ~Leaks(treat_records(stored_data.records, cat, NOTIFIED_CACHE))

(***************************************************************************)
(* Properties of the notification ledger.                                  *)
(***************************************************************************)
Holds(map, k) == k \in DOMAIN map

\* C7: access to the ledger is serialized: once the ledger callbacks that
\* interleaved have returned, the in-memory map and the file show the effect
\* of each of them: a key that was notified and not reset is in both, a key
\* that was reset and not notified is in neither.
C7_NoLostLedgerUpdate ==
    LedgerQuiet =>
       /\ \A k \in ledger_log.notified \ ledger_log.removed :
             Holds(NOTIFIED_CACHE, k) /\ Holds(NOTIFIED_FILE.data, k)
       /\ \A k \in ledger_log.removed \ ledger_log.notified :
             ~Holds(NOTIFIED_CACHE, k) /\ ~Holds(NOTIFIED_FILE.data, k)

\* handler h takes its step on the in-memory ledger
Mutates(h) == handler[h].pc = "mutate" /\ handler'[h].pc # "mutate"

\* the rows now stored, as a set
StoredRows == {stored_data.records[i] : i \in 1..Len(stored_data.records)}

\* the rows of the stored records that name the worker a reset frame is for
RowsOfWorker(frame) ==
    {r \in StoredRows :
       Get(r, "Asha_Worker", "") \o "_" = frame.pat}

\* C11: a per-row or per-worker notify leaves one entry for each of its keys,
\* holding the timestamp of this notify, whether or not the key was there
\* before; a reset of a worker removes the entries of the worker's subjects,
\* and none of them is reported as notified afterwards.
C11_MarkTwiceThenReset ==
    [][\A h \in Handlers :
         Mutates(h) =>
           /\ handler[h].op \in {"notify_cell", "notify_worker"} =>
                /\ \A k \in handler[h].keys :
                      Holds(NOTIFIED_CACHE', k) /\ NOTIFIED_CACHE'[k] = handler[h].ts
                /\ DOMAIN NOTIFIED_CACHE' = DOMAIN NOTIFIED_CACHE \cup handler[h].keys
           /\ handler[h].op = "reset_worker" =>
                \A r \in RowsOfWorker(handler[h]) :
                   /\ ~Holds(NOTIFIED_CACHE', ledger_key(r))
                   /\ get_notify_status(NOTIFIED_CACHE', r) = "Pending"]_vars

\* a subject was marked at the first and at the second click, and a reset of
\* its worker then removed the entry
C11_Witness ==
    /\ LedgerQuiet
    /\ ledger_log.reset = {"reset_worker"}
    /\ \E k \in ledger_log.removed :
          /\ <<k, now_str(1)>> \in ledger_log.stamped
          /\ <<k, now_str(2)>> \in ledger_log.stamped
          /\ ~Holds(NOTIFIED_CACHE, k)
          /\ ~Holds(NOTIFIED_FILE.data, k)

\* the subjects a bulk notification covers: the anemic rows of the workers
\* that can be reached (the rows bulk_rows takes when the ledger is empty)
BulkCovered == bulk_rows(stored_data.records, EmptyMap)

\* C12: a bulk notify at time t2 leaves t2 in the entry of every subject it
\* covers, also of a subject that was notified before.
C12_BulkNotifyUpdates ==
    [][\A h \in Handlers :
         Mutates(h) /\ handler[h].op = "bulk" =>
           \A r \in BulkCovered :
              /\ Holds(NOTIFIED_CACHE', notify_key(r))
              /\ NOTIFIED_CACHE'[notify_key(r)] = handler[h].ts]_vars

\* the rows of the three treat tables as they are drawn now
TreatRows ==
    UNION {{treat_records(stored_data.records, cat, NOTIFIED_CACHE)[i] :
              i \in 1..Len(treat_records(stored_data.records, cat, NOTIFIED_CACHE))} :
           cat \in {"severe", "moderate", "mild"}}

\* C13: after a notify action on a row (per-row, per-worker or bulk) and
\* before any reset, get_notify_status reports the row as notified, whatever
\* the worker name of the row is.
C13_NotifiedRowIsReported ==
    (LedgerQuiet /\ ledger_log.reset = {}) =>
       \A row \in TreatRows :
          Subject(row) \in ledger_log.rows => row["notify_status"] # "Pending"

\* a subject without a worker name was notified and is reported as sent
C13_Witness ==
    /\ LedgerQuiet
    /\ ledger_log.reset = {}
    /\ \E row \in TreatRows :
          /\ row["Asha_Worker"] = ""
          /\ Subject(row) \in ledger_log.rows
          /\ row["notify_status"] # "Pending"

\* C14: reset(worker) removes the entries whose key starts with worker_ and
\* leaves every entry that belongs to a different worker unchanged, also when
\* the worker's name followed by "_" begins the key of another worker.
C14_ResetWorkerFrame ==
    [][\A h \in Handlers :
         Mutates(h) /\ handler[h].op = "reset_worker" =>
            /\ \A k \in DOMAIN NOTIFIED_CACHE :
                  Matches(k, handler[h]) => ~Holds(NOTIFIED_CACHE', k)
            /\ \A r \in StoredRows \ RowsOfWorker(handler[h]) :
                  Holds(NOTIFIED_CACHE, ledger_key(r)) =>
                     /\ Holds(NOTIFIED_CACHE', ledger_key(r))
                     /\ NOTIFIED_CACHE'[ledger_key(r)] = NOTIFIED_CACHE[ledger_key(r)]]_vars

\* C15: reset_one(id) removes the entries whose key ends with _id and leaves
\* the entries of every other subject id unchanged, also when another id ends
\* with "_" and this id; when no key matches, ledger and file stay as they are.
C15_ResetOneFrame ==
    [][\A h \in Handlers :
         Mutates(h) /\ handler[h].op = "reset_cell" =>
            /\ \A k \in DOMAIN NOTIFIED_CACHE :
                  Matches(k, handler[h]) => ~Holds(NOTIFIED_CACHE', k)
            /\ \A r \in StoredRows :
                  ("_" \o Get(r, "ID", "None") # handler[h].pat
                     /\ Holds(NOTIFIED_CACHE, ledger_key(r))) =>
                     /\ Holds(NOTIFIED_CACHE', ledger_key(r))
                     /\ NOTIFIED_CACHE'[ledger_key(r)] = NOTIFIED_CACHE[ledger_key(r)]
            /\ (\A k \in DOMAIN NOTIFIED_CACHE : ~Matches(k, handler[h])) =>
                  /\ NOTIFIED_CACHE' = NOTIFIED_CACHE
                  /\ NOTIFIED_FILE' = NOTIFIED_FILE
                  /\ handler'[h].pc = "idle"]_vars

\* C16: the change-detection stage only ever reads de-duplicated records: the
\* record set a sync thread works on holds at most one row per ID.
C16_SyncSeesOneRowPerId ==
    \A t \in Threads :
       sync[t].pc # "idle" =>
          \A i, j \in 1..Len(sync[t].df) :
             i # j => sync[t].df[i]["ID"] # sync[t].df[j]["ID"]

\* the call of load_data under examination has returned
Loaded == probe.fn = "load_data" /\ probe.done

\* the row of the sheet that the i-th record of the output was made from
RawOf(i) == probe.args[1][DigitsVal(probe.out.df[i]["Sl.No"])]

\* C17: the age of a row is final before the two classifiers read it: in the
\* output of load_data the nutritional status and the anemia category of every
\* row are those of the row's final age.
C17_ClassifiedFromFinalAge ==
    Loaded =>
       \A i \in 1..Len(probe.out.df) :
          /\ probe.out.df[i]["bmi_category"] =
                classify_nutritional_status(
                   With(probe.out.df[i], "Benificiery", RawOf(i)["Benificiery"]),
                   probe.args[2])
          /\ "HGB" \in DOMAIN probe.out.df[i] =>
                probe.out.df[i]["anemia_category"] =
                   classify_anemia_who(probe.out.df[i]["HGB"], probe.out.df[i]["Age"],
                                       probe.out.df[i]["Gender"],
                                       probe.out.df[i]["Benificiery"])

\* a row without a usable age cell got its age from the date of birth, and
\* both classifiers used it
C17_Witness ==
    /\ Loaded
    /\ Len(probe.out.df) = 1
    /\ {"Age", "DOB", "HGB"} \subseteq DOMAIN RawOf(1)
    /\ RawOf(1)["Age"] = ""
    /\ probe.out.df[1]["Age"] = "12.0"
    /\ probe.out.df[1]["bmi_category"] = "Overweight"
    /\ probe.out.df[1]["Benificiery"] = "9.0"
    /\ probe.out.df[1]["anemia_category"] = "mild"

\* C18: every record of the pipeline output has an anemia_category that is
\* one of normal, mild, moderate, severe, incomplete, whatever columns the
\* source has.
C18_AnemiaCategoryNeverNull ==
    Loaded =>
       \A i \in 1..Len(probe.out.df) :
          probe.out.df[i]["anemia_category"] \in
             {"normal", "mild", "moderate", "severe", "incomplete"}

\* a cell that holds a number
IsNumber(v) == ~IsNA(v) /\ v # "" /\ IsFloatText(v)

\* the call of classify_anemia_who under examination has returned, and its
\* haemoglobin argument is a number
Classified ==
    /\ probe.fn = "classify_anemia_who" /\ probe.done
    /\ IsNumber(probe.args[1])

\* the band of a threshold row, lower bounds inclusive
RowBand(h, row) ==
    IF h >= row[1] THEN "normal"
    ELSE IF h >= row[2] THEN "mild"
    ELSE IF h >= row[3] THEN "moderate"
    ELSE "severe"

\* the threshold row of a beneficiary category
CategoryRow(b) ==
    IF b \in {"Pregnant Women", "Children 5-59 Months"} THEN <<1100, 1000, 700>>
    ELSE IF b = "Children Aged 5-9 Years" THEN <<1150, 1100, 800>>
    ELSE <<1200, 1100, 800>>

\* C19: for each of the six beneficiary categories and every numeric hgb the
\* result is the band of the category's threshold row, lower bounds
\* inclusive, whatever the age and the gender are.
C19_CategoryThresholds ==
    (Classified /\ probe.args[4] \in Categories) =>
       probe.out = RowBand(ParseFloat(probe.args[1]), CategoryRow(probe.args[4]))

\* a child of the 5-9 years category at exactly 11.5 g/dL is normal, with an
\* adult age and a male gender in the other arguments
C19_Witness ==
    /\ Classified
    /\ probe.args = <<"11.5", "30.0", "Male", "Children Aged 5-9 Years">>
    /\ probe.out = "normal"

\* the threshold row of an age and a gender
AgeRow(a, gender) ==
    IF a < 500 THEN <<1100, 1000, 700>>
    ELSE IF a < 1200 THEN <<1150, 1100, 800>>
    ELSE IF gender \in {"Male", "M"} THEN <<1300, 1100, 800>>
    ELSE <<1200, 1100, 800>>

\* C20: when no category matches and the age is present, the result is the
\* band of the age/gender row; from 12 years on only a male gender gets the
\* 13.0 threshold, a female or unknown gender gets 12.0.
C20_AgeGenderThresholds ==
    (Classified /\ probe.args[4] \notin Categories /\ IsNumber(probe.args[2])) =>
       probe.out = RowBand(ParseFloat(probe.args[1]),
                           AgeRow(ParseFloat(probe.args[2]), probe.args[3]))

\* a woman of 12 years at exactly 12.0 g/dL is normal where the male row says mild
C20_Witness ==
    /\ Classified
    /\ probe.args = <<"12.0", "12.0", "Female", "Other">>
    /\ probe.out = "normal"

\* C21: classify_anemia_who returns incomplete if and only if hgb is missing
\* or no number, or no beneficiary category matches and the age is unusable.
C21_IncompleteIff ==
    (probe.fn = "classify_anemia_who" /\ probe.done) =>
       (probe.out = "incomplete" <=>
          \/ ~IsNumber(probe.args[1])
          \/ (probe.args[4] \notin Categories /\ ~IsNumber(probe.args[2])))

\* a haemoglobin text that is no number gives incomplete for a pregnant woman
\* of known age, and a number without category and age gives incomplete too
C21_Witness ==
    /\ probe.fn = "classify_anemia_who" /\ probe.done
    /\ probe.out = "incomplete"
    /\ \/ probe.args = <<"abc", "30.0", "Female", "Pregnant Women">>
       \/ probe.args = <<"9.99", "abc", "Male", "Other">>

\* C22: every record whose beneficiary category resolves to Pregnant Women
\* has the nutritional status Obese or Pregnancy, never a BMI band or Data
\* Missing.
C22_PregnancyExemption ==
    Loaded =>
       \A i \in 1..Len(probe.out.df) :
          probe.out.df[i]["Benificiery"] = "Pregnant Women" =>
             probe.out.df[i]["bmi_category"] \in {"Obese", "Pregnancy"}

\* the adult rule: BMI < 18.5 Underweight, < 25.0 Normal, < 30.0 Overweight, else Obese
AdultBand(bmi) ==
    IF bmi < 1850 THEN "Underweight"
    ELSE IF bmi < 2500 THEN "Normal"
    ELSE IF bmi < 3000 THEN "Overweight"
    ELSE "Obese"

\* C23: a row that is not of a pregnant woman is Data Missing when its BMI is
\* missing; when the growth-chart step raises or yields nothing, the row gets
\* the adult rule, and every row of the batch is classified.
C23_ChartFailureFallsBack ==
    Loaded =>
       \A i \in 1..Len(probe.out.df) :
          probe.out.df[i]["Benificiery"] # "Pregnant Women" =>
             /\ IsNA(probe.out.df[i]["BMI"]) =>
                   probe.out.df[i]["bmi_category"] = "Data Missing"
             /\ (~IsNA(probe.out.df[i]["BMI"]) /\ probe.args[2] \in {"raise", "none"}) =>
                   probe.out.df[i]["bmi_category"] =
                      AdultBand(ParseFloat(probe.out.df[i]["BMI"]))

\* the growth-chart call raised for the child of a two-row sheet: the child
\* got the adult rule and the adult after it was classified too
C23_Witness ==
    /\ Loaded
    /\ probe.args[2] = "raise"
    /\ Len(probe.out.df) = 2
    /\ probe.out.df[1]["Age"] = "4.0"
    /\ probe.out.df[1]["bmi_category"] = "Underweight"
    /\ probe.out.df[2]["Age"] = "30.0"
    /\ probe.out.df[2]["bmi_category"] = "Underweight"

\* C24: for every cell value parse_age returns either no age or a number
\* strictly greater than 0 and strictly less than 150.
C24_AgeWithinRange ==
    (probe.fn = "parse_age" /\ probe.done) =>
       \/ IsNA(probe.out)
       \/ (0 < ParseFloat(probe.out) /\ ParseFloat(probe.out) < 15000)

\* C25: a record is in the pipeline output only if it has a resolvable age or
\* one of the six beneficiary categories; a record with no age and an
\* unrecognized beneficiary code is excluded.
C25_RetainedHasAgeOrCategory ==
    Loaded =>
       \A i \in 1..Len(probe.out.df) :
          \/ IsNumber(probe.out.df[i]["Age"])
          \/ probe.out.df[i]["Benificiery"] \in Categories

\* the records of the input that share the ID of r
SameId(r) ==
    {probe.args[1][j] : j \in {k \in 1..Len(probe.args[1]) :
                                 probe.args[1][k]["ID"] = r["ID"]}}

\* C26: after deduplication there is at most one record per ID, no record has
\* a blank ID, and the record that survives for an ID is the input record
\* with the latest sample-collected date among those of the ID.
C26_LatestRecordSurvives ==
    (probe.fn = "df_full" /\ probe.done) =>
       /\ \A i, j \in 1..Len(probe.out) :
             i # j => probe.out[i]["ID"] # probe.out[j]["ID"]
       /\ \A i \in 1..Len(probe.out) :
             /\ Strip(probe.out[i]["ID"]) # ""
             /\ probe.out[i] \in SameId(probe.out[i])
             /\ \A q \in SameId(probe.out[i]) :
                   ~IsNA(q["Sample Collected Date"]) =>
                      /\ ~IsNA(probe.out[i]["Sample Collected Date"])
                      /\ DateDays(probe.out[i]["Sample Collected Date"])
                            >= DateDays(q["Sample Collected Date"])

\* C27: for every sheet that has at least one row, whatever optional columns
\* are missing, load_data returns the classified records with the error flag
\* false.
C27_NoShapeErrorFailsBatch ==
    Loaded => (~probe.out.is_error /\ probe.out.status = "Live")

\* C28: a source column named by a synonym ("asha worker", "Asha Contact",
\* "Diet") is in the pipeline output under its canonical name, with the
\* masking of the canonical column.
C28_SynonymsReachOutput ==
    (Loaded /\ probe.args[1] = SynonymSheet) =>
       /\ Len(probe.out.df) = 1
       /\ {"Asha_Worker", "Aasha_Contact", "Diet 1"} \subseteq DOMAIN probe.out.df[1]
       /\ probe.out.df[1]["Asha_Worker"] = Title(mask_pii_readable("asha devi"))
       /\ probe.out.df[1]["Diet 1"] = "veg"

\* a save_notified_cache that completes in this step, and a save_sync_cache
\* whose write the disk accepts
LedgerSaved == \E h \in Handlers : handler[h].pc = "save" /\ handler'[h].pc = "idle"

SyncSaved ==
    /\ \E t \in Threads : sync[t].pc = "post" /\ sync'[t].pc = "idle"
    /\ last'.ok /\ last'.disk_ok

\* a load_notified_cache that runs in this step on a file that does not parse
LedgerLoadedCorrupt ==
    /\ \E h \in Handlers : handler[h].pc = "load" /\ handler'[h].pc = "mutate"
    /\ NOTIFIED_FILE.exists /\ ~NOTIFIED_FILE.readable

\* C29: a sync cache file or ledger file that does not parse loads as the
\* empty map, at the start and in every callback that reloads it; and every
\* save that completes leaves the file holding exactly the in-memory map.
C29_CorruptFileRecovers ==
    /\ (~CACHE_FILE.readable => LAST_SYNC_CACHE = EmptyMap)
    /\ (~NOTIFIED_FILE.readable => NOTIFIED_CACHE = EmptyMap)
    /\ [][ /\ LedgerLoadedCorrupt => NOTIFIED_CACHE' = EmptyMap
           /\ LedgerSaved => NOTIFIED_FILE' = FileOf(NOTIFIED_CACHE')
           /\ SyncSaved => CACHE_FILE' = FileOf(LAST_SYNC_CACHE') ]_vars

\* both files were corrupt at the start and both have been rewritten from maps
\* that were filled since
C29_Witness ==
    /\ CACHE_FILE = FileOf(LAST_SYNC_CACHE) /\ LAST_SYNC_CACHE # EmptyMap
    /\ NOTIFIED_FILE = FileOf(NOTIFIED_CACHE) /\ NOTIFIED_CACHE # EmptyMap
    /\ "Old_W" \notin DOMAIN NOTIFIED_CACHE
    /\ LedgerQuiet

\* the sync threads that this step starts
Started == {t \in Threads : sync[t].pc = "idle" /\ sync'[t].pc # "idle"}

\* C30: the push is fire-and-forget.  A refresh cycle returns what load_data
\* gave it, whatever the sync threads are doing, and neither sends nor waits
\* for a push; a push leaves the returned records alone; a cycle starts at
\* most one sync thread, a thread is started by a refresh cycle only, and a
\* thread that has sent its push, whatever the answer, is finished.
C30_PushIsFireAndForget ==
    [][ /\ Refreshes =>
             /\ stored_data' = [records |-> LoadResults[fetched'].df,
                                status |-> LoadResults[fetched'].status,
                                is_error |-> LoadResults[fetched'].is_error]
             /\ \A t \in Threads : ~Posts(t)
             /\ Cardinality(Started) <= 1
        /\ Started # {} => Refreshes
        /\ \A t \in Threads :
              /\ Posts(t) => stored_data' = stored_data /\ sync'[t] = IdleSync
              /\ (sync'[t].pc = "post" /\ sync[t].pc # "post") => DiffDone(t) ]_vars

\* a later refresh cycle has returned its records while the push of an earlier
\* cycle is still unanswered
C30_Witness ==
    /\ refreshes >= 2
    /\ sync[1].pc = "post"
    /\ stored_data.records # sync[1].df
    /\ stored_data.records # <<>>

====
